---- MODULE Spec2Model ----
(***************************************************************************)
(* Model of the documentation JSONL index and lookup toolset of            *)
(* PyTeamcenter (GetDrawings/tools): the byte-offset index builder         *)
(* (build_jsonl_index.py) and the record store (data_structures_utils.py). *)
(*                                                                         *)
(* Python strings are sequences of one-character strings, so that strip,   *)
(* upper, the digit regex, int() and the %06d format are computed and not  *)
(* assumed.                                                                *)
(***************************************************************************)
EXTENDS Integers, Sequences, FiniteSets, TLC

VARIABLES
    raw, norm, renorm,                  \* normalize_id: input, first and second application
    corpus, pos, offset, index, pc,     \* build_jsonl_index.main: the file and the scan's locals
    indexFile, cache, reads, call,      \* data_structures_utils: sidecar file, _INDEX_CACHE, opens, last call
    prevFile,                           \* the sidecar file an earlier build_jsonl_index run wrote
    docs, titlesFile, propsFile, run,   \* the front-ends: manifest and module files, titles.json, properties.json, last run
    cfg, files, workers, completed, audit,  \* download_drawings_onecall.run: options, directory, pool threads, as_completed, audit file
    orch,                               \* download_drawings_onecall.run: its inputs, all_tickets and exit code
    connection, made, init,             \* ClientX Session: Session.connection, the Connection objects made, the last Session(host)
    credentialManager, env, login,      \* Session.credentialManager, TCUSER/TCPASSWORD, the login() under way
    queue, worker, cancel_evt, gui, shown   \* get_drawings.App: queue, worker thread, cancel flag, GUI thread, lines displayed

vars == <<raw, norm, renorm, corpus, pos, offset, index, pc, indexFile, cache, reads, call,
          prevFile, docs, titlesFile, propsFile, run, cfg, files, workers, completed, audit,
          orch, connection, made, init, credentialManager, env, login, queue, worker, cancel_evt, gui, shown>>

normVars  == <<raw, norm, renorm>>
buildVars == <<corpus, pos, offset, index, pc>>
storeVars == <<indexFile, cache, reads, call>>
toolVars  == <<prevFile, docs, titlesFile, propsFile, run>>
dlVars    == <<cfg, files, workers, completed, audit>>
sessVars  == <<connection, made, init, credentialManager, env, login>>
guiVars   == <<queue, worker, cancel_evt, gui, shown>>
appVars   == <<orch, sessVars, guiVars>>

(***************************************************************************)
(* Bounds of the model.                                                    *)
(***************************************************************************)
MaxDigits == 7      \* longest digit run of a normalize_id input
MaxLines == 3       \* longest corpus
MaxReads == 3       \* times one process opens the index file
MaxId == 6          \* largest bound of a numeric range filter

(***************************************************************************)
(* Characters and strings.                                                 *)
(***************************************************************************)
DigitChars == <<"0", "1", "2", "3", "4", "5", "6", "7", "8", "9">>
LowerChars == <<"a", "b", "c", "d", "e", "f", "g", "h", "i", "j", "k", "l", "m",
                "n", "o", "p", "q", "r", "s", "t", "u", "v", "w", "x", "y", "z">>
UpperChars == <<"A", "B", "C", "D", "E", "F", "G", "H", "I", "J", "K", "L", "M",
                "N", "O", "P", "Q", "R", "S", "T", "U", "V", "W", "X", "Y", "Z">>
SpaceChars == {" ", "\n", "\t"}

Range(s) == {s[i] : i \in DOMAIN s}

IsDigit(c) == c \in Range(DigitChars)

DigitVal(c) == (CHOOSE i \in DOMAIN DigitChars : DigitChars[i] = c) - 1

\* str.upper, one character
UpperChar(c) ==
    IF c \in Range(LowerChars)
    THEN UpperChars[CHOOSE i \in DOMAIN LowerChars : LowerChars[i] = c]
    ELSE c

\* str.upper
StrUpper(s) == [i \in DOMAIN s |-> UpperChar(s[i])]

RECURSIVE LStrip(_)
LStrip(s) == IF s # <<>> /\ Head(s) \in SpaceChars THEN LStrip(Tail(s)) ELSE s

RECURSIVE RStrip(_)
RStrip(s) ==
    IF s # <<>> /\ s[Len(s)] \in SpaceChars THEN RStrip(SubSeq(s, 1, Len(s) - 1)) ELSE s

\* str.strip
StrStrip(s) == LStrip(RStrip(s))

HasDigit(s) == \E i \in DOMAIN s : IsDigit(s[i])

RECURSIVE DigitPrefix(_)
DigitPrefix(s) ==
    IF s # <<>> /\ IsDigit(Head(s)) THEN <<Head(s)>> \o DigitPrefix(Tail(s)) ELSE <<>>

\* re.search(r"(\d+)", s).group(1): the first maximal run of digits (s has a digit)
FirstDigitRun(s) ==
    LET start == CHOOSE i \in DOMAIN s : IsDigit(s[i]) /\ \A j \in 1..(i - 1) : ~IsDigit(s[j])
    IN  DigitPrefix(SubSeq(s, start, Len(s)))

\* the regex without its +: one digit only
FirstDigit(s) ==
    LET start == CHOOSE i \in DOMAIN s : IsDigit(s[i]) /\ \A j \in 1..(i - 1) : ~IsDigit(s[j])
    IN  <<s[start]>>

RECURSIVE StrToInt(_)
\* int(digits)
StrToInt(ds) ==
    IF ds = <<>> THEN 0 ELSE 10 * StrToInt(SubSeq(ds, 1, Len(ds) - 1)) + DigitVal(ds[Len(ds)])

RECURSIVE IntToStr(_)
\* format(n, "d"), n >= 0
IntToStr(n) ==
    IF n < 10 THEN <<DigitChars[n + 1]>> ELSE IntToStr(n \div 10) \o <<DigitChars[(n % 10) + 1]>>

RECURSIVE ZeroFill(_, _)
\* the 0<width> of a format spec: a minimum width, never a truncation
ZeroFill(ds, width) == IF Len(ds) >= width THEN ds ELSE ZeroFill(<<"0">> \o ds, width)

IdWidth == 6

DocPrefix == <<"D", "O", "C">>

\* f"DOC{n:06d}"
FormatDocId(n) == DocPrefix \o ZeroFill(IntToStr(n), IdWidth)

\* f"DOC{n}": the padding forgotten
FormatDocIdUnpadded(n) == DocPrefix \o IntToStr(n)

\* normalize_id with the regex (\d) in place of (\d+)
normalize_id_one_digit(s) ==
    LET cleaned == StrUpper(StrStrip(s))
    IN  IF ~HasDigit(cleaned) THEN cleaned ELSE FormatDocId(StrToInt(FirstDigit(cleaned)))

\* normalize_id without the zero padding
normalize_id_unpadded(s) ==
    LET cleaned == StrUpper(StrStrip(s))
    IN  IF ~HasDigit(cleaned) THEN cleaned ELSE FormatDocIdUnpadded(StrToInt(FirstDigitRun(cleaned)))

normalize_id(s) ==
    LET cleaned == StrUpper(StrStrip(s))
    IN  IF ~HasDigit(cleaned) THEN cleaned ELSE FormatDocId(StrToInt(FirstDigitRun(cleaned)))

\* id_to_int: None is modelled as -1 (the ids hold no sign, so no value is negative)
NoInt == -1

id_to_int(doc_id) == IF HasDigit(doc_id) THEN StrToInt(FirstDigitRun(doc_id)) ELSE NoInt

(***************************************************************************)
(* The corpus file: a sequence of lines.  A line is written as json.dumps  *)
(* writes a flat object of string values, plus "\n":                       *)
(*     {"k1": "v1", "k2": "v2"}\n                                          *)
(* shape "object" is such a line; "cut" is the same text cut off inside    *)
(* the value of its last field (no closing quote, no closing brace);       *)
(* "text" is a line that is no JSON at all; "blank" is "\n"; "scalar" is   *)
(* a JSON value that is no object (one digit).  Every line is ASCII, so a  *)
(* character is a byte.                                                    *)
(***************************************************************************)
\* A value that may be None, or a file that may not exist, is a sequence of at
\* most one element.
None == <<>>            \* Python's None
Absent == <<>>          \* a file that does not exist
Some(x) == <<x>>
The(opt) == opt[1]

Field(k, v) == [k |-> k, v |-> v]

\* bytes of "k": "v"
FieldLen(f) == Len(f.k) + Len(f.v) + 6

RECURSIVE FieldsLen(_)
FieldsLen(fs) == IF fs = <<>> THEN 0 ELSE FieldLen(Head(fs)) + FieldsLen(Tail(fs))

\* bytes of {"k1": "v1", ..., "kn": "vn"}
ObjectLen(fs) == 2 + FieldsLen(fs) + (IF Len(fs) > 1 THEN 2 * (Len(fs) - 1) ELSE 0)

\* len(line), the newline included
LineLen(line) ==
    CASE line.shape = "object" -> ObjectLen(line.fields) + 1
      [] line.shape = "cut"    -> ObjectLen(line.fields) - 2 + 1
      [] line.shape = "text"   -> Len(line.fields[1].v) + 1
      [] line.shape = "scalar" -> Len(line.fields[1].v) + 1
      [] OTHER                 -> 1

RECURSIVE CorpusLen(_)
\* the size of the file
CorpusLen(lines) == IF lines = <<>> THEN 0 ELSE LineLen(Head(lines)) + CorpusLen(Tail(lines))

\* the byte at which line i starts
LineStart(lines, i) == CorpusLen(SubSeq(lines, 1, i - 1))

\* the value an object's text gives a key: that of its last occurrence, None without one
LastValue(fs, key) ==
    IF \E i \in DOMAIN fs : fs[i].k = key
    THEN Some(fs[CHOOSE i \in DOMAIN fs : fs[i].k = key /\ \A j \in (i + 1)..Len(fs) : fs[j].k # key].v)
    ELSE None

\* json.loads of an object's text: a dict over the keys a record may hold (None: key absent)
ParseObject(fs) ==
    [id |-> LastValue(fs, "id"), title |-> LastValue(fs, "title"),
     rel_path |-> LastValue(fs, "rel_path"), content |-> LastValue(fs, "content")]

\* dict.get(key, default)
DictGet(d, key, default) == IF d[key] = None THEN default ELSE The(d[key])

\* line.find(b'"content":') > 0, as the number of the first field whose key is
\* content (0: not found).  The marker is a quoted key followed by a colon; a
\* value holds no quote, and an object line starts with a brace, so the marker
\* found is never at byte 0.
ContentField(line) ==
    IF line.shape \in {"object", "cut"} /\ \E i \in DOMAIN line.fields : line.fields[i].k = "content"
    THEN CHOOSE i \in DOMAIN line.fields :
            line.fields[i].k = "content" /\ \A j \in 1..(i - 1) : line.fields[j].k # "content"
    ELSE 0

Raised == [ok |-> FALSE]

Parsed(d) == [ok |-> TRUE, meta |-> d]

\* json.loads(line) followed by the .get calls: only an object gives a dict
WholeLineMeta(line) == IF line.shape = "object" THEN Parsed(ParseObject(line.fields)) ELSE Raised

\* the text before the marker, its trailing comma stripped, closed with a brace
PreContentMeta(line) == Parsed(ParseObject(SubSeq(line.fields, 1, ContentField(line) - 1)))

\* the body of the try block: the metadata of a line, or the exception swallowed
ExtractMeta(line) == IF ContentField(line) > 0 THEN PreContentMeta(line) ELSE WholeLineMeta(line)

(***************************************************************************)
(* The index: a Python dict, which keeps its keys in the order of their    *)
(* first insertion; an entry is id -> [offset, title, rel_path].           *)
(***************************************************************************)
Entry(id, off, title, rel_path) == [id |-> id, offset |-> off, title |-> title, rel_path |-> rel_path]

Keys(idx) == {idx[i].id : i \in DOMAIN idx}

\* index.get(doc_id)
Lookup(idx, id) ==
    IF id \in Keys(idx) THEN Some(idx[CHOOSE i \in DOMAIN idx : idx[i].id = id]) ELSE None

\* index[doc_id] = [...] that keeps the first value of a key already present
DictPutFirst(idx, e) == IF e.id \in Keys(idx) THEN idx ELSE Append(idx, e)

\* index[doc_id] = [...]
DictPut(idx, e) ==
    IF e.id \in Keys(idx)
    THEN [i \in DOMAIN idx |-> IF idx[i].id = e.id THEN e ELSE idx[i]]
    ELSE Append(idx, e)

\* one pass of the for loop over the corpus: the index after the line at byte off
IndexLine(idx, line, off) ==
    LET r == ExtractMeta(line)
        doc_id == IF r.ok THEN DictGet(r.meta, "id", <<>>) ELSE <<>>
    IN  IF doc_id # <<>>
        THEN DictPut(idx, Entry(doc_id, off, DictGet(r.meta, "title", <<>>), DictGet(r.meta, "rel_path", <<>>)))
        ELSE idx

\* offset += length that leaves a skipped line out
NextOffsetSkipping(line, off) == IF ExtractMeta(line).ok THEN off + LineLen(line) ELSE off

\* offset += length
NextOffset(line, off) == off + LineLen(line)

RECURSIVE BuildFrom(_, _, _)
BuildFrom(lines, idx, off) ==
    IF lines = <<>> THEN idx
    ELSE BuildFrom(Tail(lines), IndexLine(idx, Head(lines), off), NextOffset(Head(lines), off))

\* the index main() dumps for a corpus
BuildIndex(lines) == BuildFrom(lines, <<>>, 0)

(***************************************************************************)
(* The record store, data_structures_utils.py.                             *)
(***************************************************************************)
\* what INDEX_PATH holds: the object json.dump wrote, or text json.load rejects
IndexObject(idx) == [kind |-> "object", entries |-> idx]
Malformed == [kind |-> "malformed", entries |-> <<>>]

Loaded(c, idx, err, opened) == [cache |-> c, index |-> idx, err |-> err, opened |-> opened]

\* load_index that reads the file again whenever the cached index is empty (if _INDEX_CACHE:)
load_index_truthy(c, f) ==
    IF c # None /\ The(c) # <<>> THEN Loaded(c, c, "", FALSE)
    ELSE IF f = Absent THEN Loaded(c, None, "IndexMissing", FALSE)
    ELSE IF The(f).kind # "object" THEN Loaded(c, None, "JSONDecodeError", TRUE)
    ELSE Loaded(Some(The(f).entries), Some(The(f).entries), "", TRUE)

\* load_index that remembers a missing file as an empty index
load_index_memo_failure(c, f) ==
    IF c # None THEN Loaded(c, c, "", FALSE)
    ELSE IF f = Absent THEN Loaded(Some(<<>>), None, "IndexMissing", FALSE)
    ELSE IF The(f).kind # "object" THEN Loaded(c, None, "JSONDecodeError", TRUE)
    ELSE Loaded(Some(The(f).entries), Some(The(f).entries), "", TRUE)

\* load_index with cache c and file f: the new cache, the index returned or the
\* error raised, and whether INDEX_PATH was opened
load_index(c, f) ==
    IF c # None THEN Loaded(c, c, "", FALSE)
    ELSE IF f = Absent THEN Loaded(c, None, "IndexMissing", FALSE)
    ELSE IF The(f).kind # "object" THEN Loaded(c, None, "JSONDecodeError", TRUE)
    ELSE Loaded(Some(The(f).entries), Some(The(f).entries), "", TRUE)

NoDoc == [id |-> None, title |-> None, rel_path |-> None, content |-> None]

Returned(kind, doc) == [kind |-> kind, err |-> "", doc |-> doc]
Raise(err) == [kind |-> "raise", err |-> err, doc |-> NoDoc]

\* f.seek(offset); f.readline(): a whole line when offset is the first byte of one;
\* otherwise the rest of a line, or nothing at the end of the file
ReadLineAt(lines, off) ==
    IF \E i \in DOMAIN lines : LineStart(lines, i) = off
    THEN [whole |-> TRUE, line |-> lines[CHOOSE i \in DOMAIN lines : LineStart(lines, i) = off]]
    ELSE [whole |-> FALSE, line |-> [shape |-> "blank", fields |-> <<>>]]

\* json.loads(line).  The rest of a line read from its middle is never JSON: the
\* lines hold one brace pair and values of letters and digits that end in a letter.
JsonLoads(rd) ==
    IF rd.whole /\ rd.line.shape = "object" THEN Returned("doc", ParseObject(rd.line.fields))
    ELSE IF rd.whole /\ rd.line.shape = "scalar" THEN Returned("scalar", NoDoc)
    ELSE Raise("JSONDecodeError")

\* get_doc that checks for the corpus file before the lookup
get_doc_corpus_first(x, idx, corp) ==
    LET meta == Lookup(idx, normalize_id(x))
    IN  IF corp = Absent THEN Raise("CorpusMissing")
        ELSE IF meta = None THEN Returned("none", NoDoc)
        ELSE JsonLoads(ReadLineAt(The(corp), The(meta).offset))

\* get_doc without its f.seek(offset): the first line of the file is read
get_doc_no_seek(x, idx, corp) ==
    LET meta == Lookup(idx, normalize_id(x))
    IN  IF meta = None THEN Returned("none", NoDoc)
        ELSE IF corp = Absent THEN Raise("CorpusMissing")
        ELSE JsonLoads(ReadLineAt(The(corp), 0))

\* get_doc after its load_index call returned idx
get_doc(x, idx, corp) ==
    LET meta == Lookup(idx, normalize_id(x))
    IN  IF meta = None THEN Returned("none", NoDoc)
        ELSE IF corp = Absent THEN Raise("CorpusMissing")
        ELSE JsonLoads(ReadLineAt(The(corp), The(meta).offset))

Meta(e) == [id |-> e.id, title |-> e.title, rel_path |-> e.rel_path]

\* the two range tests with bounds that exclude their ends
InRangeExclusive(numeric, id_min, id_max) ==
    /\ ~(id_min # None /\ (numeric = NoInt \/ numeric <= The(id_min)))
    /\ ~(id_max # None /\ (numeric = NoInt \/ numeric >= The(id_max)))

\* the two range tests of the loop body: neither continue is taken
InRange(numeric, id_min, id_max) ==
    /\ ~(id_min # None /\ (numeric = NoInt \/ numeric < The(id_min)))
    /\ ~(id_max # None /\ (numeric = NoInt \/ numeric > The(id_max)))

\* allowed: the set of normalised ids, or None when ids is None or empty
AllowedOf(ids) == IF ids # None /\ The(ids) # <<>> THEN Some({normalize_id(i) : i \in Range(The(ids))}) ELSE None

RECURSIVE FilterFrom(_, _, _, _)
\* the for loop of filter_records over the entries left
FilterFrom(entries, allowed, id_min, id_max) ==
    IF entries = <<>> THEN <<>>
    ELSE LET e == Head(entries)
             rest == FilterFrom(Tail(entries), allowed, id_min, id_max)
         IN  IF allowed # None /\ The(allowed) # {} /\ e.id \notin The(allowed) THEN rest
             ELSE IF ~InRange(id_to_int(e.id), id_min, id_max) THEN rest
             ELSE <<Meta(e)>> \o rest

\* list(filter_records(ids, id_min, id_max)) after its load_index call returned idx
filter_records(ids, id_min, id_max, idx) == FilterFrom(idx, AllowedOf(ids), id_min, id_max)

(***************************************************************************)
(* The inputs of the model.                                                *)
(***************************************************************************)
Str_Alpha == <<"A", "l", "p", "h", "a">>
Str_Beta == <<"B", "e", "t", "a">>
Str_Gamma == <<"G", "a", "m", "m", "a", "s">>
Str_Mid == <<"M", "i", "d">>
Str_doc18 == <<"d", "o", "c", "1", "8">>
Str_ABC == <<"A", "B", "C">>

\* DOC00000n, n a digit
CanonId(n) == <<"D", "O", "C", "0", "0", "0", "0", "0", DigitChars[n + 1]>>

Rec(id, title, path, content) ==
    [shape |-> "object",
     fields |-> <<Field("id", id), Field("title", title), Field("rel_path", path), Field("content", content)>>]

L_Alpha == Rec(CanonId(1), Str_Alpha, <<"a">>, <<"x", "x">>)
L_Beta == Rec(CanonId(2), Str_Beta, <<"b", "/", "b">>, <<"y">>)
\* a second record of id 1
L_Gamma == Rec(CanonId(1), Str_Gamma, <<"g">>, <<"z", "z", "z">>)
\* content written before title and rel_path
L_Mid ==
    [shape |-> "object",
     fields |-> <<Field("id", CanonId(2)), Field("content", <<"m">>), Field("title", Str_Mid), Field("rel_path", <<"m">>)>>]
\* content written first
L_ContentFirst ==
    [shape |-> "object",
     fields |-> <<Field("content", <<"c">>), Field("id", CanonId(3)), Field("title", Str_Mid), Field("rel_path", <<"c">>)>>]
\* no content key
L_Plain ==
    [shape |-> "object",
     fields |-> <<Field("id", CanonId(3)), Field("title", Str_Beta), Field("rel_path", <<"p">>)>>]
\* a record cut off in its content
L_Cut == [shape |-> "cut", fields |-> Rec(CanonId(3), Str_Alpha, <<"t">>, <<"u", "u">>).fields]
\* a record cut off in its title, before any content
L_CutEarly == [shape |-> "cut", fields |-> <<Field("id", CanonId(4)), Field("title", Str_Alpha)>>]
L_Text == [shape |-> "text", fields |-> <<Field("", <<"n", "o", "t", " ", "j", "s", "o", "n">>)>>]
L_Blank == [shape |-> "blank", fields |-> <<>>]
L_Scalar == [shape |-> "scalar", fields |-> <<Field("", <<"5">>)>>]
\* an id that is not in canonical form
L_Lower == Rec(Str_doc18, Str_Beta, <<"l">>, <<"w">>)
\* an empty id
L_NoId == Rec(<<>>, Str_Alpha, <<"e">>, <<"v">>)

LineChoices ==
    {L_Alpha, L_Beta, L_Gamma, L_Mid, L_ContentFirst, L_Plain, L_Cut, L_CutEarly,
     L_Text, L_Blank, L_Scalar, L_Lower, L_NoId}

Corpora == UNION {[1..n -> LineChoices] : n \in 0..MaxLines}

\* the ids asked of get_doc after a build: those of the lines, a bare number, an unknown id
Queries == {CanonId(1), CanonId(2), CanonId(3), CanonId(4), Str_doc18, <<"2">>, CanonId(9)}

NoFilter == [ids |-> None, id_min |-> None, id_max |-> None]

\* The last call of the process: its arguments, what it met (the cache before it,
\* the index file and whether the corpus file existed, whether an earlier call
\* had failed for want of the index file), the index load_index gave it, and
\* what it returned or raised (rows: the records a filter_records call yielded).
NoCall ==
    [op |-> "none", arg |-> <<>>, filter |-> NoFilter,
     cached |-> None, seen |-> Absent, corpusThere |-> FALSE, afterMiss |-> FALSE,
     index |-> None, result |-> Returned("none", NoDoc), rows |-> <<>>]

\* the command line of a front-end: the options it may be given
NoArgs ==
    [term |-> <<>>, exact |-> FALSE, max |-> 0, include_path |-> FALSE, flt |-> NoFilter,
     bo |-> None, rg |-> FALSE]

\* no front-end has run
NoRun ==
    [tool |-> "none", args |-> NoArgs, matches |-> <<>>, scanned |-> 0, out |-> "", exit |-> 0, exc |-> ""]

\* the variables of the front-ends, for a specification that runs none
ToolsIdle ==
    prevFile = Absent /\ docs = <<>> /\ titlesFile = Absent /\ propsFile = Absent /\ run = NoRun

\* the variables of the downloader, for a specification that runs none
DownloadIdle == cfg = <<>> /\ files = <<>> /\ workers = <<>> /\ completed = <<>> /\ audit = <<>>

\* run() of the downloader not under way
RunIdle == orch = <<>>

\* the variables of the ClientX Session, for a specification that makes none
SessionIdle ==
    connection = <<>> /\ made = 0 /\ init = <<>> /\ credentialManager = <<>> /\ env = <<>> /\ login = <<>>

\* the variables of the GUI, for a specification that opens none
GuiIdle == queue = <<>> /\ worker = <<>> /\ cancel_evt = FALSE /\ gui = <<>> /\ shown = <<>>

AppIdle == RunIdle /\ SessionIdle /\ GuiIdle

(***************************************************************************)
(* build_jsonl_index.main, one step per line of the corpus.                *)
(***************************************************************************)
\* main() without a corpus file: prints and returns 1
BuildMissing ==
    /\ pc = "start"
    /\ corpus = Absent
    /\ pc' = "failed"
    /\ UNCHANGED <<appVars, toolVars, dlVars, corpus, pos, offset, index, normVars, storeVars>>

\* a start of the scan that keeps the offset it finds
BuildOpenKeepOffset ==
    /\ pc = "start"
    /\ corpus # Absent
    /\ pc' = "scan"
    /\ index' = <<>>
    /\ pos' = 0
    /\ UNCHANGED <<appVars, toolVars, dlVars, corpus, offset, normVars, storeVars>>

\* index = {}; offset = 0; open(JSONL, "rb")
BuildOpen ==
    /\ pc = "start"
    /\ corpus # Absent
    /\ pc' = "scan"
    /\ index' = <<>>
    /\ offset' = 0
    /\ pos' = 0
    /\ UNCHANGED <<appVars, toolVars, dlVars, corpus, normVars, storeVars>>

\* one iteration of for line in f
ScanLine ==
    /\ pc = "scan"
    /\ pos < Len(The(corpus))
    /\ LET line == The(corpus)[pos + 1]
       IN  /\ index' = IndexLine(index, line, offset)
           /\ offset' = NextOffset(line, offset)
    /\ pos' = pos + 1
    /\ UNCHANGED <<appVars, toolVars, dlVars, corpus, pc, normVars, storeVars>>

\* json.dump(index, f); return 0
DumpIndex ==
    /\ pc = "scan"
    /\ pos = Len(The(corpus))
    /\ indexFile' = Some(IndexObject(index))
    /\ pc' = "built"
    /\ UNCHANGED <<appVars, toolVars, dlVars, corpus, pos, offset, index, normVars, cache, reads, call>>

(***************************************************************************)
(* The calls of a process that uses the record store.                      *)
(***************************************************************************)
MadeCall(op, arg, flt, ld, result, rows) ==
    [op |-> op, arg |-> arg, filter |-> flt,
     cached |-> cache, seen |-> indexFile, corpusThere |-> corpus # Absent,
     afterMiss |-> call.afterMiss \/ call.result.err = "IndexMissing",
     index |-> ld.index, result |-> result, rows |-> rows]

\* load_index()
LoadIndexCall ==
    LET ld == load_index(cache, indexFile)
    IN  /\ ld.opened => reads < MaxReads
        /\ cache' = ld.cache
        /\ reads' = reads + (IF ld.opened THEN 1 ELSE 0)
        /\ call' = MadeCall("load_index", <<>>, NoFilter, ld,
                            IF ld.err = "" THEN Returned("index", NoDoc) ELSE Raise(ld.err), <<>>)
        /\ UNCHANGED <<appVars, toolVars, dlVars, normVars, buildVars, indexFile>>

\* get_doc(x)
GetDoc(x) ==
    LET ld == load_index(cache, indexFile)
    IN  /\ ld.opened => reads < MaxReads
        /\ cache' = ld.cache
        /\ reads' = reads + (IF ld.opened THEN 1 ELSE 0)
        /\ call' = MadeCall("get_doc", x, NoFilter, ld,
                            IF ld.err = "" THEN get_doc(x, The(ld.index), corpus) ELSE Raise(ld.err), <<>>)
        /\ UNCHANGED <<appVars, toolVars, dlVars, normVars, buildVars, indexFile>>

\* list(filter_records(ids, id_min, id_max))
FilterRecords(flt) ==
    LET ld == load_index(cache, indexFile)
    IN  /\ ld.opened => reads < MaxReads
        /\ cache' = ld.cache
        /\ reads' = reads + (IF ld.opened THEN 1 ELSE 0)
        /\ call' = MadeCall("filter_records", <<>>, flt, ld,
                            IF ld.err = "" THEN Returned("rows", NoDoc) ELSE Raise(ld.err),
                            IF ld.err = ""
                            THEN filter_records(flt.ids, flt.id_min, flt.id_max, The(ld.index))
                            ELSE <<>>)
        /\ UNCHANGED <<appVars, toolVars, dlVars, normVars, buildVars, indexFile>>

InitBuild ==
    /\ ToolsIdle /\ DownloadIdle /\ AppIdle
    /\ corpus \in {Absent} \cup {Some(c) : c \in Corpora}
    /\ pos = 0 /\ offset = 0 /\ index = <<>> /\ pc = "start"
    /\ indexFile = Absent /\ cache = None /\ reads = 0 /\ call = NoCall
    /\ raw = <<>> /\ norm = None /\ renorm = None

NextBuild ==
    \/ BuildMissing
    \/ BuildOpen
    \/ ScanLine
    \/ DumpIndex
    \/ (pc = "built" /\ call.op = "none" /\ \E x \in Queries : GetDoc(x))

\* a build of the index of any corpus, then one lookup in a fresh process
SpecBuild == InitBuild /\ [][NextBuild]_vars

(***************************************************************************)
(* Properties of the index build and of the lookups that follow it.        *)
(***************************************************************************)
Lines == IF corpus = Absent THEN <<>> ELSE The(corpus)

\* a line that holds one record: a JSON object with the four keys of a record
IsRecordLine(line) ==
    /\ line.shape = "object"
    /\ {line.fields[i].k : i \in DOMAIN line.fields} = {"id", "title", "rel_path", "content"}

\* the line is valid JSON
IsJson(line) == line.shape \in {"object", "scalar"}

\* the builder makes an entry of the line
IsIndexed(line) == IndexLine(<<>>, line, 0) # <<>>

\* the key of that entry
IndexedId(line) == IndexLine(<<>>, line, 0)[1].id

\* the record of a line, as json.loads gives it
RecordOf(line) == ParseObject(line.fields)

\* line i is the last line of the corpus indexed under its id
IsLastOfId(i) ==
    \A j \in (i + 1)..Len(Lines) : ~(IsIndexed(Lines[j]) /\ IndexedId(Lines[j]) = IndexedId(Lines[i]))

AskedFor(id) == pc = "built" /\ call.op = "get_doc" /\ call.arg = id

\* the id of the line is in the canonical form of the data model (DOC and digits,
\* or any text normalize_id leaves as it is)
HasCanonicalId(line) == normalize_id(IndexedId(line)) = IndexedId(line)

\* C1 as stated, for records of canonical id: get_doc(record["id"]) returns the
\* record of every record line that was written into the corpus and indexed.
C1_RoundTripEveryRecordLine ==
    \A i \in DOMAIN Lines :
        (/\ IsRecordLine(Lines[i]) /\ IsIndexed(Lines[i]) /\ AskedFor(IndexedId(Lines[i]))
         /\ HasCanonicalId(Lines[i]))
            => (call.result.kind = "doc" /\ call.result.doc = RecordOf(Lines[i]))

\* C1, amended: for every record line whose id normalize_id leaves unchanged and
\* that is the last line of the corpus indexed under that id, get_doc(record["id"])
\* on the unchanged corpus returns a record with the same id, title, rel_path and
\* content.
C1_RoundTripLastCanonical ==
    \A i \in DOMAIN Lines :
        (/\ IsRecordLine(Lines[i]) /\ IsIndexed(Lines[i]) /\ AskedFor(IndexedId(Lines[i]))
         /\ HasCanonicalId(Lines[i])
         /\ IsLastOfId(i))
            => (call.result.kind = "doc" /\ call.result.doc = RecordOf(Lines[i]))

\* C1's case: a record that is not the first line of its corpus, behind an earlier
\* record of the same id, is fetched back.
C1_Witness ==
    \E i \in DOMAIN Lines :
        /\ i > 1 /\ IsRecordLine(Lines[i]) /\ IsIndexed(Lines[i]) /\ IsLastOfId(i)
        /\ AskedFor(IndexedId(Lines[i]))
        /\ \E j \in 1..(i - 1) : IsIndexed(Lines[j]) /\ IndexedId(Lines[j]) = IndexedId(Lines[i])
        /\ call.result.kind = "doc" /\ call.result.doc = RecordOf(Lines[i])

\* the entries an offset rule is about: those in memory and, once dumped, those of the file
Entries == IF indexFile # Absent /\ The(indexFile).kind = "object" THEN The(indexFile).entries ELSE index

\* C2: during and after the scan of any corpus, the offset of every index entry is
\* the sum of the byte lengths of all the lines before one line, skipped lines
\* included, and the metadata id of that line is the entry's key.
C2_OffsetIsLineStart ==
    pc \in {"scan", "built"} =>
        \A k \in DOMAIN Entries :
            \E i \in 1..pos :
                /\ Entries[k].offset = CorpusLen(SubSeq(Lines, 1, i - 1))
                /\ IsIndexed(Lines[i])
                /\ IndexedId(Lines[i]) = Entries[k].id

\* C2's case: an entry was written for a line that follows a skipped line.
C2_Witness ==
    /\ pc = "built"
    /\ \E k \in DOMAIN Entries : \E i \in 2..pos :
            /\ Entries[k].offset = CorpusLen(SubSeq(Lines, 1, i - 1))
            /\ Entries[k].offset > 0
            /\ ~IsIndexed(Lines[i - 1])
            /\ ~IsJson(Lines[i - 1])

\* C3 as stated: a line that is not valid JSON contributes no index entry, every
\* key of the built index is the id of a well-formed record line, and get_doc
\* succeeds for every key of the index.
C3_MalformedLineGivesNoEntry ==
    pc = "built" =>
        /\ \A k \in DOMAIN Entries :
                \E i \in DOMAIN Lines : IsJson(Lines[i]) /\ RecordOf(Lines[i]).id = Some(Entries[k].id)
        /\ \A k \in DOMAIN Entries :
                AskedFor(Entries[k].id) /\ normalize_id(Entries[k].id) = Entries[k].id
                    => call.result.kind = "doc"

\* a line in the format the builder's comments assume: a well-formed object with
\* a canonical id whose content, if any, is written after id, title and rel_path
InFormat(line) ==
    /\ line.shape = "object"
    /\ IsIndexed(line) /\ HasCanonicalId(line)
    /\ \A i \in DOMAIN line.fields : line.fields[i].k = "content" => i = Len(line.fields)

\* line i is the last well-formed line of the corpus that holds its id
IsLastRecordOfId(i) ==
    \A j \in (i + 1)..Len(Lines) :
        ~(Lines[j].shape = "object" /\ RecordOf(Lines[j]).id = RecordOf(Lines[i]).id)

\* C4 as stated, for well-formed lines in the builder's format: the index holds
\* one entry per id; the entry of an id holds the offset, title and rel_path of the
\* last such line of the id, and get_doc of the id returns that line's record.
C4_LastRecordOfIdWins ==
    pc = "built" =>
        /\ \A k, m \in DOMAIN Entries : Entries[k].id = Entries[m].id => k = m
        /\ \A i \in DOMAIN Lines :
                (InFormat(Lines[i]) /\ IsLastRecordOfId(i))
                    => /\ \E k \in DOMAIN Entries :
                            Entries[k] = Entry(IndexedId(Lines[i]), LineStart(Lines, i),
                                               DictGet(RecordOf(Lines[i]), "title", <<>>),
                                               DictGet(RecordOf(Lines[i]), "rel_path", <<>>))
                       /\ AskedFor(IndexedId(Lines[i]))
                            => (call.result.kind = "doc" /\ call.result.doc = RecordOf(Lines[i]))

(***************************************************************************)
(* normalize_id applied to a raw id, and again to its own result.          *)
(***************************************************************************)
NormDigits == {"0", "1", "8"}
DigitRuns == UNION {[1..n -> NormDigits] : n \in 0..MaxDigits}
RawPrefixes == {<<>>, <<" ">>, <<"d", "o", "c">>, <<"D", "O", "C">>, <<"x", "-">>}
RawSuffixes == {<<>>, <<"\n">>, <<"a", "2">>}

\* raw ids: noise, a run of digits (or none), noise
RawInputs == {p \o d \o t : p \in RawPrefixes, d \in DigitRuns, t \in RawSuffixes}

\* normalize_id(raw)
Normalize ==
    /\ norm = None
    /\ norm' = Some(normalize_id(raw))
    /\ UNCHANGED <<appVars, toolVars, dlVars, raw, renorm, buildVars, storeVars>>

\* normalize_id(normalize_id(raw))
Renormalize ==
    /\ norm # None
    /\ renorm = None
    /\ renorm' = Some(normalize_id(The(norm)))
    /\ UNCHANGED <<appVars, toolVars, dlVars, raw, norm, buildVars, storeVars>>

InitNorm ==
    /\ ToolsIdle /\ DownloadIdle /\ AppIdle
    /\ raw \in RawInputs
    /\ norm = None /\ renorm = None
    /\ corpus = Absent /\ pos = 0 /\ offset = 0 /\ index = <<>> /\ pc = "idle"
    /\ indexFile = Absent /\ cache = None /\ reads = 0 /\ call = NoCall

NextNorm == Normalize \/ Renormalize

\* normalize_id on any raw id of the input set, applied once and twice
SpecNorm == InitNorm /\ [][NextNorm]_vars

\* ^DOC\d{n}$ for some n >= least
IsDocDigits(s, least) ==
    /\ Len(s) >= 3 + least
    /\ SubSeq(s, 1, 3) = <<"D", "O", "C">>
    /\ \A i \in 4..Len(s) : IsDigit(s[i])

RECURSIVE DropZeros(_)
DropZeros(ds) == IF Len(ds) > 1 /\ Head(ds) = "0" THEN DropZeros(Tail(ds)) ELSE ds

\* the digits of the first number written in s, its leading zeros dropped
Significant(s) ==
    LET first == CHOOSE i \in DOMAIN s : IsDigit(s[i]) /\ \A j \in 1..(i - 1) : ~IsDigit(s[j])
        after == {j \in first..Len(s) : ~IsDigit(s[j])}
        last == IF after = {} THEN Len(s) ELSE (CHOOSE j \in after : \A m \in after : j <= m) - 1
    IN  DropZeros(SubSeq(s, first, last))

Str_18 == <<"1", "8">>
Str_doc000018 == <<"d", "o", "c", "0", "0", "0", "0", "1", "8">>
Str_DOC18 == <<"D", "O", "C", "1", "8">>
Str_DOC000018 == <<"D", "O", "C", "0", "0", "0", "0", "1", "8">>

StoreCorpus ==
    <<Rec(CanonId(3), Str_Gamma, <<"g">>, <<"z">>), L_Alpha, Rec(Str_ABC, Str_Mid, <<"m">>, <<"q">>),
      Rec(CanonId(5), Str_Alpha, <<"f">>, <<"v", "v">>), L_Beta, Rec(CanonId(4), Str_Mid, <<"d">>, <<"w">>)>>

IndexA == BuildIndex(StoreCorpus)
IndexB == BuildIndex(<<L_Beta, L_Gamma>>)

\* what the index file may hold
IndexContents == {IndexObject(IndexA), IndexObject(IndexB), IndexObject(<<>>), Malformed}

StoreQueries == {<<"2">>, CanonId(1), CanonId(9), <<"a", "b", "c">>}

StoreFilters ==
    {NoFilter, [ids |-> Some(<<Str_ABC, <<"4">>>>), id_min |-> None, id_max |-> None],
     [ids |-> None, id_min |-> Some(2), id_max |-> Some(4)]}

\* the index file is written: by a build, or by hand
WriteIndexFile(c) ==
    /\ indexFile # Some(c)
    /\ indexFile' = Some(c)
    /\ UNCHANGED <<appVars, toolVars, dlVars, normVars, buildVars, cache, reads, call>>

\* the index file is deleted
RemoveIndexFile ==
    /\ indexFile # Absent
    /\ indexFile' = Absent
    /\ UNCHANGED <<appVars, toolVars, dlVars, normVars, buildVars, cache, reads, call>>

\* the corpus file is deleted
RemoveCorpus ==
    /\ corpus # Absent
    /\ corpus' = Absent
    /\ UNCHANGED <<appVars, toolVars, dlVars, normVars, pos, offset, index, pc, storeVars>>

\* the corpus file is put back
RestoreCorpus ==
    /\ corpus = Absent
    /\ corpus' = Some(StoreCorpus)
    /\ UNCHANGED <<appVars, toolVars, dlVars, normVars, pos, offset, index, pc, storeVars>>

InitStore ==
    /\ ToolsIdle /\ DownloadIdle /\ AppIdle
    /\ corpus \in {Absent, Some(StoreCorpus)}
    /\ indexFile \in {Absent} \cup {Some(c) : c \in IndexContents}
    /\ cache = None /\ reads = 0 /\ call = NoCall
    /\ pos = 0 /\ offset = 0 /\ index = <<>> /\ pc = "store"
    /\ raw = <<>> /\ norm = None /\ renorm = None

NextStore ==
    \/ LoadIndexCall
    \/ \E x \in StoreQueries : GetDoc(x)
    \/ \E flt \in StoreFilters : FilterRecords(flt)
    \/ \E c \in IndexContents : WriteIndexFile(c)
    \/ RemoveIndexFile
    \/ RemoveCorpus
    \/ RestoreCorpus

\* any sequence of record-store calls in one process, the files changing in between
SpecStore == InitStore /\ [][NextStore]_vars

\* C5: once a load_index call has succeeded, every later load_index, get_doc and
\* filter_records call uses the mapping it read, whatever happens to the index
\* file, and the index file is not read again.
C5_LoadedOnce ==
    [][cache # None =>
            /\ cache' = cache
            /\ reads' = reads
            /\ call' # call => (call'.index = cache /\ call'.result.err # "IndexMissing")]_vars

\* C5's case: a call used the cached mapping while the index file held something
\* else, or was gone, and the file had been opened once.
C5_Witness ==
    /\ call.op \in {"load_index", "get_doc", "filter_records"}
    /\ call.cached # None /\ call.index = call.cached
    /\ call.seen # Some(IndexObject(The(call.cached)))
    /\ reads = 1

\* C9: get_doc(x) for an x whose normalised id is no key of the index returns None
\* whether or not the corpus file exists; the corpus file-not-found error is
\* raised only for an id of the index with the corpus file missing; the
\* missing-index error is another failure, raised first when no index is cached
\* and the index file is absent.
C9_NotFoundIsNone ==
    call.op = "get_doc" =>
        /\ (call.index # None /\ normalize_id(call.arg) \notin Keys(The(call.index)))
                => call.result = Returned("none", NoDoc)
        /\ call.result.err = "CorpusMissing"
                => (/\ call.index # None /\ normalize_id(call.arg) \in Keys(The(call.index))
                    /\ ~call.corpusThere)
        /\ (call.cached = None /\ call.seen = Absent) => call.result = Raise("IndexMissing")
        /\ call.result.err = "IndexMissing" => (call.cached = None /\ call.seen = Absent)

\* C9's case: an id that is not in the index was asked for with the corpus file missing.
C9_Witness ==
    /\ call.op = "get_doc" /\ ~call.corpusThere
    /\ call.index = Some(IndexA) /\ call.arg = CanonId(9)
    /\ call.result.kind = "none"

\* C10: load_index with no cached index and no index file raises the missing-index
\* error and leaves the cache unset; with no cached index and an index file, also
\* after such a failure, it returns the content of the file.
C10_MissingIndexNotMemoised ==
    call.op = "load_index" =>
        /\ (call.cached = None /\ call.seen = Absent)
                => (call.result = Raise("IndexMissing") /\ call.index = None /\ cache = None)
        /\ (call.cached = None /\ call.seen # Absent /\ The(call.seen).kind = "object")
                => (/\ call.result = Returned("index", NoDoc)
                    /\ call.index = Some(The(call.seen).entries)
                    /\ cache = call.index)

\* C10's case: load_index succeeded after an earlier call of the process had failed
\* for want of the index file.
C10_Witness ==
    /\ call.op = "load_index" /\ call.afterMiss
    /\ call.result = Returned("index", NoDoc) /\ call.index = Some(IndexA)

(***************************************************************************)
(* filter_records on any filter.                                           *)
(***************************************************************************)
IdLists ==
    {None, Some(<<>>), Some(<<<<"2">>>>), Some(<<<<"a", "b", "c">>>>),
     Some(<<<<"d", "o", "c", "3">>, CanonId(5), <<" ", "3">>>>), Some(<<CanonId(9)>>)}

RangeEnds == {None} \cup {Some(n) : n \in 0..MaxId}

Filters == [ids : IdLists, id_min : RangeEnds, id_max : RangeEnds]

\* the filter is drawn at the start; the process then calls filter_records with it,
\* the first time loading the index and afterwards from the cache
InitFilter ==
    /\ ToolsIdle /\ DownloadIdle /\ AppIdle
    /\ corpus = Some(StoreCorpus)
    /\ indexFile \in {Some(IndexObject(IndexA)), Some(IndexObject(IndexB)), Some(IndexObject(<<>>))}
    /\ cache = None /\ reads = 0
    /\ \E flt \in Filters : call = [NoCall EXCEPT !.filter = flt]
    /\ pos = 0 /\ offset = 0 /\ index = <<>> /\ pc = "store"
    /\ raw = <<>> /\ norm = None /\ renorm = None

NextFilter == FilterRecords(call.filter)

\* filter_records calls with any allow-set and range over an index
SpecFilter == InitFilter /\ [][NextFilter]_vars

\* what C6 says of one entry: it is in the allow-set when one is given, and its
\* number lies within each bound given
Kept(e, flt) ==
    /\ (flt.ids # None /\ The(flt.ids) # <<>>)
            => \E i \in DOMAIN The(flt.ids) : normalize_id(The(flt.ids)[i]) = e.id
    /\ flt.id_min # None => (HasDigit(e.id) /\ StrToInt(Significant(e.id)) >= The(flt.id_min))
    /\ flt.id_max # None => (HasDigit(e.id) /\ StrToInt(Significant(e.id)) <= The(flt.id_max))

RowIds(rows) == [i \in DOMAIN rows |-> rows[i].id]

\* C6: filter_records yields, in index order and each once, exactly the entries of
\* the index (as id, title, rel_path) that are in the allow-set when one is given
\* and within both ends of the range, the ends included; ids 1..5 with id_min=2 and
\* id_max=4 give 2, 3 and 4; an id without a number fails every range but passes
\* an allow-set that holds it.
C6_FilterRecords ==
    (call.op = "filter_records" /\ call.result.kind = "rows") =>
        LET idx == The(call.index)
            keep(e) == Kept(e, call.filter)
            kept == SelectSeq(idx, keep)
        IN  /\ call.rows = [i \in DOMAIN kept |-> Meta(kept[i])]
            /\ (idx = IndexA /\ call.filter = [ids |-> None, id_min |-> Some(2), id_max |-> Some(4)])
                    => RowIds(call.rows) = <<CanonId(3), CanonId(2), CanonId(4)>>
            /\ (call.filter.id_min # None \/ call.filter.id_max # None)
                    => \A i \in DOMAIN call.rows : call.rows[i].id # Str_ABC
            /\ (idx = IndexA /\ call.filter = [ids |-> Some(<<<<"a", "b", "c">>>>), id_min |-> None, id_max |-> None])
                    => RowIds(call.rows) = <<Str_ABC>>

\* C6's case: the range 2..4 was asked of the index of ids 1..5 and three records came.
C6_Witness ==
    /\ call.op = "filter_records" /\ call.index = Some(IndexA)
    /\ call.filter = [ids |-> None, id_min |-> Some(2), id_max |-> Some(4)]
    /\ Len(call.rows) = 3

(***************************************************************************)
(* build_title_index.main: the manifest docs/index.json names the modules, *)
(* each with its JSONL file; the output is docs/titles.json.               *)
(***************************************************************************)
\* one entry of the manifest, with the file its name leads to
ModEntry(module, file) == [module |-> module, file |-> file]

\* a record of a module file
DocRec(id, title, path, markdown) ==
    [shape |-> "object",
     fields |-> <<Field("id", id), Field("title", title), Field("path", path), Field("markdown", markdown)>>]

\* the truth value of rec.get(key): the key is there and its string is not empty
Truthy(opt) == opt # None /\ The(opt) # <<>>

TitleEntry(title, module, id) == [title |-> title, module |-> module, id |-> id]

\* the body of the for loop with an index entry for every object, whatever it holds
TitleOfLineUnchecked(line, mod_name) ==
    IF line.shape = "object"
    THEN <<TitleEntry(DictGet(ParseObject(line.fields), "title", <<>>), mod_name,
                      DictGet(ParseObject(line.fields), "id", <<>>))>>
    ELSE <<>>

\* the try block of one line that json.loads accepts as an object, or rejects
TitleOfLine(line, mod_name) ==
    IF line.shape = "object" /\ Truthy(LastValue(line.fields, "title")) /\ Truthy(LastValue(line.fields, "id"))
    THEN <<TitleEntry(The(LastValue(line.fields, "title")), mod_name, The(LastValue(line.fields, "id")))>>
    ELSE <<>>

\* json.loads gives a value that is no dict: rec.get raises AttributeError, which nothing catches
NotADict(line) == line.shape = "scalar"

RECURSIVE TitlesOfFile(_, _)
\* for line in f, up to the line that ends the run
TitlesOfFile(lines, mod_name) ==
    IF lines = <<>> THEN [crashed |-> FALSE, entries |-> <<>>]
    ELSE IF NotADict(Head(lines)) THEN [crashed |-> TRUE, entries |-> <<>>]
    ELSE LET rest == TitlesOfFile(Tail(lines), mod_name)
         IN  [crashed |-> rest.crashed, entries |-> TitleOfLine(Head(lines), mod_name) \o rest.entries]

RECURSIVE TitlesOfModules(_)
\* for mod_entry in modules
TitlesOfModules(modules) ==
    IF modules = <<>> THEN [crashed |-> FALSE, entries |-> <<>>]
    ELSE LET m == Head(modules)
             here == IF m.file = Absent THEN [crashed |-> FALSE, entries |-> <<>>]
                     ELSE TitlesOfFile(The(m.file), m.module)
         IN  IF here.crashed THEN [crashed |-> TRUE, entries |-> <<>>]
             ELSE LET rest == TitlesOfModules(Tail(modules))
                  IN  [crashed |-> rest.crashed, entries |-> here.entries \o rest.entries]

\* what a run of a command-line tool left behind: the results it printed, the
\* entries its loop went through, its last message, its exit code, and the
\* exception that ended it when nothing caught one
Ran(tool, args, matches, scanned, out, exit, exc) ==
    [tool |-> tool, args |-> args, matches |-> matches, scanned |-> scanned, out |-> out,
     exit |-> exit, exc |-> exc]

\* a run that an uncaught exception ended: Python prints the traceback and exits 1
Crashed(tool, args, matches, scanned, exc) == Ran(tool, args, matches, scanned, "", 1, exc)

\* python tools/build_title_index.py
BuildTitleIndex ==
    /\ run.tool = "none"
    /\ IF docs = Absent
       THEN /\ run' = Ran("build_title_index", NoArgs, <<>>, 0, "Manifest not found", 1, "")
            /\ UNCHANGED titlesFile
       ELSE LET built == TitlesOfModules(The(docs))
            IN  IF built.crashed
                THEN /\ run' = Crashed("build_title_index", NoArgs, <<>>, 0, "AttributeError")
                     /\ UNCHANGED titlesFile
                ELSE /\ run' = Ran("build_title_index", NoArgs, built.entries, 0, "Finished", 0, "")
                     /\ titlesFile' = Some(built.entries)
    /\ UNCHANGED <<appVars, normVars, buildVars, storeVars, prevFile, docs, propsFile, dlVars>>

MaxModules == 2     \* longest manifest

Str_M1 == <<"M", "1">>
Str_M2 == <<"M", "2">>
Str_u1 == <<"u", "1">>
Str_u2 == <<"u", "2">>
Str_Audit == <<"A", "u", "d", "i", "t">>
Str_AuditX == <<"A", "u", "d", "i", "t", " ", "X">>

D_One == DocRec(Str_u1, Str_Audit, <<"p", "1">>, <<"t", "e", "x", "t">>)
D_Two == DocRec(Str_u2, Str_AuditX, <<"p", "2">>, <<"m", "o", "r", "e">>)
\* an empty title
D_NoTitle == DocRec(Str_u2, <<>>, <<"p", "3">>, <<"t">>)
\* no id key
D_NoId == [shape |-> "object", fields |-> <<Field("title", Str_Audit), Field("path", <<"p", "4">>)>>]

\* the module files of the model: two records, the same in the other order, one
\* record twice, records without title or id, lines that are no JSON, a JSON
\* number, an empty file
ModuleFiles ==
    {<<D_One, D_Two>>, <<D_Two, D_One>>, <<D_One, D_One>>, <<D_NoTitle, D_One>>,
     <<L_Text, D_Two, L_Blank>>, <<D_NoId, L_Cut>>, <<D_One, L_Scalar>>, <<>>}

ModEntries == {ModEntry(m, f) : m \in {Str_M1, Str_M2}, f \in {Absent} \cup {Some(x) : x \in ModuleFiles}}

Manifests == UNION {[1..n -> ModEntries] : n \in 0..MaxModules}

InitTitles ==
    /\ docs \in {Absent} \cup {Some(m) : m \in Manifests}
    /\ titlesFile = Absent /\ propsFile = Absent /\ run = NoRun /\ prevFile = Absent
    /\ corpus = Absent /\ pos = 0 /\ offset = 0 /\ index = <<>> /\ pc = "tools"
    /\ indexFile = Absent /\ cache = None /\ reads = 0 /\ call = NoCall
    /\ raw = <<>> /\ norm = None /\ renorm = None
    /\ DownloadIdle /\ AppIdle

NextTitles == BuildTitleIndex

\* one run of build_title_index over any manifest of the model
SpecTitles == InitTitles /\ [][NextTitles]_vars

\* line j of the file of manifest entry i gives an entry of the title index
Titled(i, j) ==
    LET line == The(The(docs)[i].file)[j]
    IN  /\ line.shape = "object"
        /\ \E k \in DOMAIN line.fields : line.fields[k].k = "title" /\ line.fields[k].v # <<>>
        /\ \E k \in DOMAIN line.fields : line.fields[k].k = "id" /\ line.fields[k].v # <<>>

\* the lines that give an entry, as <<entry of the manifest, line of its file>>
TitledLines ==
    UNION {{<<i, j>> : j \in {k \in DOMAIN The(The(docs)[i].file) : Titled(i, k)}} :
              i \in {m \in DOMAIN The(docs) : The(docs)[m].file # Absent}}

\* manifest order, then file order
Before(p, q) == p[1] < q[1] \/ (p[1] = q[1] /\ p[2] < q[2])

RankOf(p) == Cardinality({q \in TitledLines : Before(q, p)}) + 1

BuiltTitles == run.tool = "build_title_index" /\ run.exit = 0

\* C17: the title index a run of build_title_index writes holds one (title,
\* module name, id) for every line that parses as an object with a non-empty
\* title and id, and nothing else: the entries of the manifest in manifest
\* order, a missing file giving none, the lines of a file in file order, equal
\* entries kept (a file of two records under M1 gives two entries).
C17_TitleIndexIsConcatenation ==
    BuiltTitles =>
        /\ titlesFile # Absent
        /\ Len(The(titlesFile)) = Cardinality(TitledLines)
        /\ \A p \in TitledLines :
              LET line == The(The(docs)[p[1]].file)[p[2]]
                  e == The(titlesFile)[RankOf(p)]
              IN  /\ e.module = The(docs)[p[1]].module
                  /\ e.title = The(LastValue(line.fields, "title"))
                  /\ e.id = The(LastValue(line.fields, "id"))

\* C17's case: the manifest names M1 with a file of two records, then a missing
\* file, then a file that holds one record twice; the index has four entries.
C17_Witness ==
    /\ BuiltTitles
    /\ docs = Some(<<ModEntry(Str_M1, Some(<<D_One, D_Two>>)), ModEntry(Str_M2, Some(<<D_One, D_One>>))>>)
    /\ Len(The(titlesFile)) = 4

(***************************************************************************)
(* The search front-ends over the title index, the sidecar index and the   *)
(* property list: find_title.py, data_structures_title_search.py and       *)
(* data_structures_property_search.py.  Each run is a process of its own.  *)
(***************************************************************************)
\* str.lower, one character
LowerChar(c) ==
    IF c \in Range(UpperChars)
    THEN LowerChars[CHOOSE i \in DOMAIN UpperChars : UpperChars[i] = c]
    ELSE c

\* str.lower
StrLower(s) == [i \in DOMAIN s |-> LowerChar(s[i])]

\* t in s
IsSubstring(t, s) == \E i \in 0..(Len(s) - Len(t)) : SubSeq(s, i + 1, i + Len(t)) = t

\* the two tests of find_title without the lower() of the title
TitleMatchesCaseSensitive(title, term_lower, exact) ==
    IF exact THEN title = term_lower ELSE IsSubstring(term_lower, title)

\* find_title: title.lower() == term_lower with --exact, term_lower in title.lower() without
TitleMatches(title, term_lower, exact) ==
    IF exact THEN StrLower(title) = term_lower ELSE IsSubstring(term_lower, StrLower(title))

Scan(matches, scanned) == [matches |-> matches, scanned |-> scanned]

RECURSIVE FindTitleFrom(_, _, _, _, _, _)
\* find_title: the for loop over the entries left, the cap tested after every entry
FindTitleFrom(entries, term_lower, exact, max, matches, scanned) ==
    IF entries = <<>> THEN Scan(matches, scanned)
    ELSE LET e == Head(entries)
             found == IF TitleMatches(e.title, term_lower, exact) THEN Append(matches, e) ELSE matches
         IN  IF Len(found) >= max THEN Scan(found, scanned + 1)
             ELSE FindTitleFrom(Tail(entries), term_lower, exact, max, found, scanned + 1)

\* python tools/find_title.py term [--exact] [--max N]
FindTitleMain(term, exact, max) ==
    LET args == [NoArgs EXCEPT !.term = term, !.exact = exact, !.max = max]
        sc == FindTitleFrom(The(titlesFile), StrLower(term), exact, max, <<>>, 0)
    IN  /\ run' = IF titlesFile = Absent
                  THEN Ran("find_title", args, <<>>, 0, "Title index not found", 1, "")
                  ELSE IF sc.matches = <<>>
                  THEN Ran("find_title", args, <<>>, sc.scanned, "No matches found.", 1, "")
                  ELSE Ran("find_title", args, sc.matches, sc.scanned, "Found", 0, "")
        /\ UNCHANGED <<appVars, normVars, buildVars, storeVars, prevFile, docs, titlesFile, propsFile, dlVars>>

\* any(term in (t or "").lower() for t in target_texts)
RowMatches(rec, term_lower, include_path) ==
    \/ IsSubstring(term_lower, StrLower(rec.title))
    \/ include_path /\ IsSubstring(term_lower, StrLower(rec.rel_path))

RECURSIVE TitleSearchFrom(_, _, _, _, _, _)
\* data_structures_title_search: the for loop over the records filter_records yields
TitleSearchFrom(rows, term_lower, include_path, max, matches, scanned) ==
    IF rows = <<>> THEN Scan(matches, scanned)
    ELSE LET rec == Head(rows)
             found == IF RowMatches(rec, term_lower, include_path) THEN Append(matches, rec) ELSE matches
         IN  IF Len(found) >= max THEN Scan(found, scanned + 1)
             ELSE TitleSearchFrom(Tail(rows), term_lower, include_path, max, found, scanned + 1)

\* ids = [normalize_id(i) for i in flatten_ids(args.ids)]
NormalizedIds(ids) == IF ids = None THEN Some(<<>>) ELSE Some([i \in DOMAIN The(ids) |-> normalize_id(The(ids)[i])])

\* python tools/data_structures_title_search.py term [--include-path] [--ids ..] [--range ..] [--max N];
\* the parser knows no --exact and ends the run when it is given one
TitleSearchMain(term, exact, include_path, flt, max) ==
    LET args == [NoArgs EXCEPT !.term = term, !.exact = exact, !.include_path = include_path,
                               !.flt = flt, !.max = max]
        ld == load_index(None, indexFile)
        rows == filter_records(NormalizedIds(flt.ids), flt.id_min, flt.id_max, The(ld.index))
        sc == TitleSearchFrom(rows, StrLower(term), include_path, max, <<>>, 0)
    IN  /\ run' = IF exact
                  THEN Ran("title_search", args, <<>>, 0, "unrecognized arguments", 2, "")
                  ELSE IF ld.err # "" THEN Crashed("title_search", args, <<>>, 0, ld.err)
                  ELSE IF sc.matches = <<>>
                  THEN Ran("title_search", args, <<>>, sc.scanned, "No matches found.", 0, "")
                  ELSE Ran("title_search", args, sc.matches, sc.scanned, "Found", 0, "")
        /\ UNCHANGED <<appVars, normVars, buildVars, storeVars, prevFile, docs, titlesFile, propsFile, dlVars>>

\* an entry of properties.json
Prop(bo_title, name) == [bo_title |-> bo_title, name |-> name]

\* the two filters of the loop body: neither continue is taken
PropMatches(p, bo_lower, term_lower, exact) ==
    /\ Truthy(bo_lower) => IsSubstring(The(bo_lower), StrLower(p.bo_title))
    /\ Truthy(term_lower) =>
          IF exact THEN StrLower(p.name) = The(term_lower) ELSE IsSubstring(The(term_lower), StrLower(p.name))

RECURSIVE PropSearchFrom(_, _, _, _, _, _, _)
\* data_structures_property_search: the for loop, the cap tested after every append
PropSearchFrom(props, bo_lower, term_lower, exact, max, matches, scanned) ==
    IF props = <<>> THEN Scan(matches, scanned)
    ELSE IF ~PropMatches(Head(props), bo_lower, term_lower, exact)
    THEN PropSearchFrom(Tail(props), bo_lower, term_lower, exact, max, matches, scanned + 1)
    ELSE IF Len(matches) + 1 >= max THEN Scan(Append(matches, Head(props)), scanned + 1)
    ELSE PropSearchFrom(Tail(props), bo_lower, term_lower, exact, max, Append(matches, Head(props)), scanned + 1)

\* args.term.lower() if args.term else None
LowerOrNone(opt) == IF Truthy(opt) THEN Some(StrLower(The(opt))) ELSE None

\* python tools/data_structures_property_search.py [term] [--bo BO] [--exact] [--max N]
PropertySearchMain(term, bo, exact, max) ==
    LET args == [NoArgs EXCEPT !.term = term, !.bo = bo, !.exact = exact, !.max = max]
        sc == PropSearchFrom(The(propsFile), LowerOrNone(bo), LowerOrNone(term), exact, max, <<>>, 0)
    IN  /\ run' = IF ~Truthy(term) /\ ~Truthy(bo)
                  THEN Ran("property_search", args, <<>>, 0, "usage", 1, "")
                  ELSE IF propsFile = Absent
                  THEN Ran("property_search", args, <<>>, 0, "Property index not found", 1, "")
                  ELSE IF sc.matches = <<>>
                  THEN Ran("property_search", args, <<>>, sc.scanned, "No matches found.", 0, "")
                  ELSE Ran("property_search", args, sc.matches, sc.scanned, "Found", 0, "")
        /\ UNCHANGED <<appVars, normVars, buildVars, storeVars, prevFile, docs, titlesFile, propsFile, dlVars>>

(***************************************************************************)
(* data_structures_read.py: a record by id, or by the end of its rel_path. *)
(***************************************************************************)
\* str.replace("\\", "/")
SlashOnly(s) == [i \in DOMAIN s |-> IF s[i] = "\\" THEN "/" ELSE s[i]]

RECURSIVE LStripSlash(_)
LStripSlash(s) == IF s # <<>> /\ Head(s) = "/" THEN LStripSlash(Tail(s)) ELSE s

RECURSIVE RStripSlash(_)
RStripSlash(s) == IF s # <<>> /\ s[Len(s)] = "/" THEN RStripSlash(SubSeq(s, 1, Len(s) - 1)) ELSE s

\* target.replace("\\", "/").strip("/")
NormPath(target) == RStripSlash(LStripSlash(SlashOnly(target)))

\* str.endswith
EndsWith(s, t) == Len(t) <= Len(s) /\ SubSeq(s, Len(s) - Len(t) + 1, Len(s)) = t

\* the test of the path scan with str.startswith in place of str.endswith
PathMatchesPrefix(rel_path, target_norm) ==
    rel_path # <<>> /\ (rel_path = target_norm \/ (Len(target_norm) <= Len(rel_path) /\ SubSeq(rel_path, 1, Len(target_norm)) = target_norm))

\* rel_path and (rel_path == target_norm or rel_path.endswith(target_norm))
PathMatches(rel_path, target_norm) ==
    rel_path # <<>> /\ (rel_path = target_norm \/ EndsWith(rel_path, target_norm))

\* the for loop over index.items(): the place of the first entry that matches, 0 without one
FirstPathMatch(idx, target_norm) ==
    IF \E i \in DOMAIN idx : PathMatches(idx[i].rel_path, target_norm)
    THEN CHOOSE i \in DOMAIN idx :
            PathMatches(idx[i].rel_path, target_norm) /\ \A j \in 1..(i - 1) : ~PathMatches(idx[j].rel_path, target_norm)
    ELSE 0

\* python tools/data_structures_read.py target; out names the step that gave
\* the record printed, or the last message
ReadMain(target) ==
    LET args == [NoArgs EXCEPT !.term = target]
        ld == load_index(None, indexFile)
        byId == get_doc(normalize_id(target), The(ld.index), corpus)
        at == FirstPathMatch(The(ld.index), NormPath(target))
        byPath == get_doc(The(ld.index)[at].id, The(ld.index), corpus)
        scanned == IF at = 0 THEN Len(The(ld.index)) ELSE at
    IN  /\ run' =
              IF ld.err # "" THEN Crashed("read", args, <<>>, 0, ld.err)
              ELSE IF byId.kind = "raise" THEN Crashed("read", args, <<>>, 0, byId.err)
              ELSE IF byId.kind = "scalar" THEN Crashed("read", args, <<>>, 0, "AttributeError")
              ELSE IF byId.kind = "doc" THEN Ran("read", args, <<byId.doc>>, 0, "by id", 0, "")
              ELSE IF at = 0 THEN Ran("read", args, <<>>, scanned, "Document not found", 1, "")
              ELSE IF byPath.kind = "raise" THEN Ran("read", args, <<>>, scanned, "Index search error, Document not found", 1, "")
              ELSE IF byPath.kind = "scalar" THEN Crashed("read", args, <<>>, scanned, "AttributeError")
              ELSE IF byPath.kind = "doc" THEN Ran("read", args, <<byPath.doc>>, scanned, "by path", 0, "")
              ELSE Ran("read", args, <<>>, scanned, "Document not found", 1, "")
        /\ UNCHANGED <<appVars, normVars, buildVars, storeVars, prevFile, docs, titlesFile, propsFile, dlVars>>

(***************************************************************************)
(* data_structures_search.py: a regex search of the corpus text, by rg or, *)
(* without it, by re; and docs_search.py over the module files.            *)
(***************************************************************************)
\* the characters of a key
KeyChars(k) ==
    CASE k = "id"       -> <<"i", "d">>
      [] k = "title"    -> <<"t", "i", "t", "l", "e">>
      [] k = "rel_path" -> <<"r", "e", "l", "_", "p", "a", "t", "h">>
      [] k = "content"  -> <<"c", "o", "n", "t", "e", "n", "t">>
      [] k = "path"     -> <<"p", "a", "t", "h">>
      [] k = "markdown" -> <<"m", "a", "r", "k", "d", "o", "w", "n">>
      [] OTHER          -> <<>>

\* "k": "v"
FieldText(f) == <<"\"">> \o KeyChars(f.k) \o <<"\"", ":", " ", "\"">> \o f.v \o <<"\"">>

RECURSIVE FieldsText(_)
FieldsText(fs) ==
    IF fs = <<>> THEN <<>>
    ELSE IF Len(fs) = 1 THEN FieldText(fs[1])
    ELSE FieldText(Head(fs)) \o <<",", " ">> \o FieldsText(Tail(fs))

\* the text of a line, newline included
LineText(line) ==
    CASE line.shape = "object" -> <<"{">> \o FieldsText(line.fields) \o <<"}", "\n">>
      [] line.shape = "cut"    -> SubSeq(<<"{">> \o FieldsText(line.fields), 1, FieldsLen(line.fields) + 2 * (Len(line.fields) - 1)) \o <<"\n">>
      [] line.shape = "text"   -> line.fields[1].v \o <<"\n">>
      [] line.shape = "scalar" -> line.fields[1].v \o <<"\n">>
      [] OTHER                 -> <<"\n">>

\* the marker '"id": "'
IdMarker == <<"\"", "i", "d", "\"", ":", " ", "\"">>

\* '"id": "' in line
HasIdMarker(line) == IsSubstring(IdMarker, LineText(line))

\* A term is a regular expression.  Those of the model are words without a
\* metacharacter, which rg -i and re.IGNORECASE both find wherever the word
\* stands in the line in any case, and the unclosed group "(", which both reject.
InvalidRegex(term) == \E i \in DOMAIN term : term[i] = "("

\* pattern.search(line), and rg -i term on the line
RegexFinds(term, line) == IsSubstring(StrLower(term), StrLower(LineText(line)))

MaxColumns == 300

\* what rg writes for a line it finds: the line, or a notice in place of a line
\* longer than --max-columns
RgLine(line) ==
    IF LineLen(line) - 1 > MaxColumns
    THEN [shape |-> "text", fields |-> <<Field("", <<"[", "O", "m", "i", "t", "t", "e", "d", "]">>)>>]
    ELSE line

RECURSIVE RgOutput(_, _)
\* proc.stdout: nothing when rg rejects the term
RgOutput(term, lines) ==
    IF InvalidRegex(term) \/ lines = <<>> THEN <<>>
    ELSE (IF RegexFinds(term, Head(lines)) THEN <<RgLine(Head(lines))>> ELSE <<>>) \o RgOutput(term, Tail(lines))

\* for line_bytes in proc.stdout: the first line that holds the marker reaches
\* "if doc_id in seen", and main binds no name seen
RgLoop(out) == IF \E i \in DOMAIN out : HasIdMarker(out[i]) THEN "NameError" ELSE "end"

\* for line in f: the same for the first line the pattern finds that holds the marker
ReLoop(term, lines) ==
    IF \E i \in DOMAIN lines : RegexFinds(term, lines[i]) /\ HasIdMarker(lines[i]) THEN "NameError" ELSE "end"

\* the lines gone through before the loop ended
Through(lines, Hit(_)) ==
    IF \E i \in DOMAIN lines : Hit(lines[i])
    THEN CHOOSE i \in DOMAIN lines : Hit(lines[i]) /\ \A j \in 1..(i - 1) : ~Hit(lines[j])
    ELSE Len(lines)

\* main whose fallback returns 0 after "Error reading file"
SearchMainQuietFallback(term, max, rg) ==
    LET args == [NoArgs EXCEPT !.term = term, !.max = max, !.rg = rg]
        out == RgOutput(term, The(corpus))
        Found(line) == RegexFinds(term, line) /\ HasIdMarker(line)
    IN  /\ run' =
              IF corpus = Absent THEN Ran("search", args, <<>>, 0, "not found", 1, "")
              ELSE IF rg
              THEN IF RgLoop(out) = "NameError"
                   THEN Crashed("search", args, <<>>, Through(out, HasIdMarker), "NameError")
                   ELSE Crashed("search", args, <<>>, Len(out), "UnboundLocalError")
              ELSE IF InvalidRegex(term) THEN Ran("search", args, <<>>, 0, "Invalid regex", 1, "")
              ELSE IF ReLoop(term, The(corpus)) = "NameError"
                   THEN Ran("search", args, <<>>, Through(The(corpus), Found), "Error reading file", 0, "")
                   ELSE Crashed("search", args, <<>>, Len(The(corpus)), "UnboundLocalError")
        /\ UNCHANGED <<appVars, normVars, buildVars, storeVars, prevFile, docs, titlesFile, propsFile, dlVars>>

\* python tools/data_structures_search.py term [--max N], with rg installed or
\* not.  A loop that ends without an exception reaches "if count == 0", and
\* count is a local of main that nothing has bound.
SearchMain(term, max, rg) ==
    LET args == [NoArgs EXCEPT !.term = term, !.max = max, !.rg = rg]
        out == RgOutput(term, The(corpus))
        Found(line) == RegexFinds(term, line) /\ HasIdMarker(line)
    IN  /\ run' =
              IF corpus = Absent THEN Ran("search", args, <<>>, 0, "not found", 1, "")
              ELSE IF rg
              THEN IF RgLoop(out) = "NameError"
                   THEN Crashed("search", args, <<>>, Through(out, HasIdMarker), "NameError")
                   ELSE Crashed("search", args, <<>>, Len(out), "UnboundLocalError")
              ELSE IF InvalidRegex(term) THEN Ran("search", args, <<>>, 0, "Invalid regex", 1, "")
              ELSE IF ReLoop(term, The(corpus)) = "NameError"
                   THEN Ran("search", args, <<>>, Through(The(corpus), Found), "Error reading file", 1, "")
                   ELSE Crashed("search", args, <<>>, Len(The(corpus)), "UnboundLocalError")
        /\ UNCHANGED <<appVars, normVars, buildVars, storeVars, prevFile, docs, titlesFile, propsFile, dlVars>>

\* load_modules: the entries of the manifest whose module name holds one of the
\* patterns, all of them without a pattern
LoadModules(manifest, pattern) ==
    IF ~Truthy(pattern) THEN manifest
    ELSE SelectSeq(manifest, LAMBDA m : IsSubstring(StrLower(The(pattern)), StrLower(m.module)))

\* rec.get(key, "")
DictGetField(fs, key) == IF LastValue(fs, key) = None THEN <<>> ELSE The(LastValue(fs, key))

\* " ".join([title, path, markdown]).lower()
DocText(fs) ==
    StrLower(DictGetField(fs, "title") \o <<" ">> \o DictGetField(fs, "path") \o <<" ">> \o DictGetField(fs, "markdown"))

RECURSIVE DocsOfFile(_, _)
\* iter_records over one file: the lines json.loads accepts, with their module
DocsOfFile(lines, mod_name) ==
    IF lines = <<>> THEN <<>>
    ELSE (IF Head(lines).shape \in {"object", "scalar"} THEN <<[module |-> mod_name, line |-> Head(lines)]>> ELSE <<>>)
         \o DocsOfFile(Tail(lines), mod_name)

RECURSIVE IterRecords(_)
\* iter_records: a module without a file is passed over
IterRecords(modules) ==
    IF modules = <<>> THEN <<>>
    ELSE (IF Head(modules).file = Absent THEN <<>> ELSE DocsOfFile(The(Head(modules).file), Head(modules).module))
         \o IterRecords(Tail(modules))

RECURSIVE DocsSearchFrom(_, _, _, _, _)
\* the for loop of docs_search.main: the cap tested after every print; a
\* record that is no dict ends the run at rec.get
DocsSearchFrom(recs, term_lower, max, matches, scanned) ==
    IF recs = <<>> THEN [matches |-> matches, scanned |-> scanned, exc |-> ""]
    ELSE IF Head(recs).line.shape # "object" THEN [matches |-> matches, scanned |-> scanned + 1, exc |-> "AttributeError"]
    ELSE IF ~IsSubstring(term_lower, DocText(Head(recs).line.fields))
    THEN DocsSearchFrom(Tail(recs), term_lower, max, matches, scanned + 1)
    ELSE IF Len(matches) + 1 >= max THEN [matches |-> Append(matches, Head(recs)), scanned |-> scanned + 1, exc |-> ""]
    ELSE DocsSearchFrom(Tail(recs), term_lower, max, Append(matches, Head(recs)), scanned + 1)

\* python tools/docs_search.py term [--module M] [--max N]
DocsSearchMain(term, pattern, max) ==
    LET args == [NoArgs EXCEPT !.term = term, !.bo = pattern, !.max = max]
        modules == LoadModules(The(docs), pattern)
        sc == DocsSearchFrom(IterRecords(modules), StrLower(term), max, <<>>, 0)
    IN  /\ run' =
              IF docs = Absent THEN Crashed("docs_search", args, <<>>, 0, "FileNotFoundError")
              ELSE IF modules = <<>> THEN Ran("docs_search", args, <<>>, 0, "No modules matched", 1, "")
              ELSE IF sc.exc # "" THEN Crashed("docs_search", args, sc.matches, sc.scanned, sc.exc)
              ELSE IF sc.matches = <<>> THEN Ran("docs_search", args, <<>>, sc.scanned, "No matches found.", 0, "")
              ELSE Ran("docs_search", args, sc.matches, sc.scanned, "printed", 0, "")
        /\ UNCHANGED <<appVars, normVars, buildVars, storeVars, prevFile, docs, titlesFile, propsFile, dlVars>>

(***************************************************************************)
(* One run of a front-end over the files of the model.                     *)
(***************************************************************************)
MaxResults == 3     \* largest --max

Str_audit == <<"a", "u", "d", "i", "t">>
Str_AUDIT_X == <<"A", "U", "D", "I", "T", " ", "X">>
Str_zz == <<"z", "z">>

S_One == Rec(CanonId(1), Str_Audit, <<"d", "/", "a">>, <<"x">>)
S_Two == Rec(CanonId(2), Str_AuditX, <<"e", "/", "a">>, <<"y">>)
\* its rel_path holds a digit, the number of S_Two
S_Three == Rec(CanonId(3), Str_Beta, <<"d", "/", "2">>, Str_audit)
\* cut off in its content
S_Four == [shape |-> "cut", fields |-> Rec(CanonId(4), Str_Mid, <<"c", "/", "t">>, <<"u", "u">>).fields]
\* a second record of id 1
S_OneAgain == Rec(CanonId(1), Str_Gamma, <<"g">>, Str_audit)

SearchCorpus == <<S_One, S_Two, S_Three, S_Four>>
DupCorpus == <<S_Two, S_One, L_Text, S_OneAgain, S_Two>>

SearchDocs == <<ModEntry(Str_M1, Some(<<D_One, D_Two>>)), ModEntry(Str_M2, Some(<<D_Two, L_Text, D_One>>))>>
ScalarDocs == <<ModEntry(Str_M1, Absent), ModEntry(Str_M2, Some(<<D_One, L_Scalar, D_Two>>))>>

Str_It == <<"I", "t">>
Str_ItRev == <<"I", "t", "R", "e", "v">>
Str_nm == <<"n", "m">>
Str_onm == <<"o", "n", "m">>

SearchProps == <<Prop(Str_It, Str_nm), Prop(Str_ItRev, Str_onm), Prop(Str_It, Str_onm), Prop(Str_ItRev, <<"N", "M">>)>>

TitleTerms == {Str_audit, Str_Audit, Str_AUDIT_X, Str_zz}
PropTerms == {None, Some(Str_nm), Some(<<"O", "N", "M">>), Some(Str_zz)}
BoTerms == {None, Some(<<"i", "t">>), Some(<<"r", "e", "v">>)}
SearchTerms == {Str_audit, <<"D", "O", "C">>, Str_zz, <<"(">>}
ModulePatterns == {None, Some(<<"m", "2">>), Some(Str_zz)}
ReadTargets ==
    {<<"a">>, <<"e", "/", "a">>, <<"e", "\\", "a">>, <<"/", "e", "/", "a", "/">>, <<"d", "/", "2">>,
     <<"c", "/", "t">>, <<"g">>, <<"3">>, CanonId(1), Str_zz}
SearchFilters ==
    {NoFilter, [ids |-> Some(<<<<"2">>, <<"d", "o", "c", "3">>>>), id_min |-> None, id_max |-> None],
     [ids |-> None, id_min |-> Some(2), id_max |-> Some(3)]}
Caps == 0..MaxResults

InitSearch ==
    /\ corpus \in {Some(SearchCorpus), Some(DupCorpus), Some(<<>>)}
    /\ indexFile = Some(IndexObject(BuildIndex(The(corpus))))
    /\ docs \in {Some(SearchDocs), Some(ScalarDocs)}
    /\ titlesFile \in {Absent, Some(TitlesOfModules(SearchDocs).entries), Some(<<>>)}
    /\ propsFile \in {Absent, Some(SearchProps)}
    /\ run = NoRun /\ prevFile = Absent
    /\ pos = 0 /\ offset = 0 /\ index = <<>> /\ pc = "tools"
    /\ cache = None /\ reads = 0 /\ call = NoCall
    /\ raw = <<>> /\ norm = None /\ renorm = None
    /\ DownloadIdle /\ AppIdle

NextSearch ==
    \/ (run.tool = "none" /\ \E term \in TitleTerms, exact \in BOOLEAN, max \in Caps : FindTitleMain(term, exact, max))
    \/ (run.tool = "none" /\ \E term \in TitleTerms, exact \in BOOLEAN, path \in BOOLEAN, flt \in SearchFilters, max \in Caps :
            TitleSearchMain(term, exact, path, flt, max))
    \/ (run.tool = "none" /\ \E term \in PropTerms, bo \in BoTerms, exact \in BOOLEAN, max \in Caps :
            PropertySearchMain(term, bo, exact, max))
    \/ (run.tool = "none" /\ \E target \in ReadTargets : ReadMain(target))
    \/ (run.tool = "none" /\ \E term \in SearchTerms, max \in Caps, rg \in BOOLEAN : SearchMain(term, max, rg))
    \/ (run.tool = "none" /\ \E term \in TitleTerms, pattern \in ModulePatterns, max \in Caps : DocsSearchMain(term, pattern, max))

\* one run of any front-end, with any of its options, over the files of the model
SpecSearch == InitSearch /\ [][NextSearch]_vars

(***************************************************************************)
(* Properties of the capped searches.                                      *)
(***************************************************************************)
CappedTools == {"find_title", "title_search", "property_search"}

\* the run went through its loop
Searched == run.tool \in CappedTools /\ run.out \in {"Found", "No matches found."}

\* the list the loop of the run iterates
SearchedEntries ==
    CASE run.tool = "find_title"   -> The(titlesFile)
      [] run.tool = "title_search" ->
            filter_records(NormalizedIds(run.args.flt.ids), run.args.flt.id_min, run.args.flt.id_max,
                           The(indexFile).entries)
      [] OTHER                     -> The(propsFile)

\* t holds the term of the run, or is it with --exact, whatever the case of the letters
HoldsTerm(t, term) ==
    IF run.args.exact THEN StrLower(t) = StrLower(term) ELSE IsSubstring(StrLower(term), StrLower(t))

\* the entry is one the run looks for
IsMatch(e) ==
    CASE run.tool = "find_title"   -> HoldsTerm(e.title, run.args.term)
      [] run.tool = "title_search" ->
            \/ HoldsTerm(e.title, run.args.term)
            \/ run.args.include_path /\ HoldsTerm(e.rel_path, run.args.term)
      [] OTHER                     ->
            /\ Truthy(run.args.bo) => IsSubstring(StrLower(The(run.args.bo)), StrLower(e.bo_title))
            /\ Truthy(run.args.term) => HoldsTerm(e.name, The(run.args.term))

AllMatches == SelectSeq(SearchedEntries, IsMatch)

\* the place in the list of its n-th match, 0 for n = 0
PlaceOfMatch(n) ==
    IF n = 0 THEN 0
    ELSE CHOOSE i \in DOMAIN SearchedEntries :
            /\ IsMatch(SearchedEntries[i])
            /\ Len(SelectSeq(SubSeq(SearchedEntries, 1, i), IsMatch)) = n

Smaller(a, b) == IF a < b THEN a ELSE b

\* C11: a run of find_title, data_structures_title_search or
\* data_structures_property_search with --max N, N >= 0, reports the first
\* min(N, total) matching entries in the order of the list, never more than
\* N, and its loop ends at the entry that made the N-th match.
C11_FirstNMatches ==
    Searched =>
        /\ run.matches = SubSeq(AllMatches, 1, Smaller(run.args.max, Len(AllMatches)))
        /\ Len(run.matches) <= run.args.max
        /\ Len(AllMatches) >= run.args.max => run.scanned = PlaceOfMatch(run.args.max)

TitleTools == {"find_title", "title_search"}

Reported(e) == \E i \in DOMAIN run.matches : run.matches[i] = e

\* the title holds the term, whatever the case of the letters
TitleHoldsTerm(e) == IsSubstring(StrLower(run.args.term), StrLower(e.title))

\* the title is the term, whatever the case of the letters
TitleIsTerm(e) == StrLower(e.title) = StrLower(run.args.term)

ReadIndex == The(indexFile).entries

\* the target of the run, as a path
TargetPath == NormPath(run.args.term)

\* the index has an entry for the target read as an id
IdKnown == \E i \in DOMAIN ReadIndex : ReadIndex[i].id = normalize_id(run.args.term)

\* entry i of the index has a rel_path that is the target path or ends with it
PathFits(i) == ReadIndex[i].rel_path = TargetPath \/ EndsWith(ReadIndex[i].rel_path, TargetPath)

\* the first entry, in index order, that fits
FirstFit == CHOOSE i \in DOMAIN ReadIndex : PathFits(i) /\ \A j \in 1..(i - 1) : ~PathFits(j)

\* the line of the corpus at the offset of entry i
LineOf(i) == ReadLineAt(The(corpus), ReadIndex[i].offset).line

LinesFound ==
    SelectSeq(The(corpus), LAMBDA line : RegexFinds(run.args.term, line) /\ LastValue(line.fields, "id") # None)

RECURSIVE FirstOfEach(_, _)
\* the ids of the lines, each at its first place
FirstOfEach(lines, seen) ==
    IF lines = <<>> THEN <<>>
    ELSE LET id == The(LastValue(Head(lines).fields, "id"))
         IN  IF id \in seen THEN FirstOfEach(Tail(lines), seen)
             ELSE <<id>> \o FirstOfEach(Tail(lines), seen \cup {id})

IdsFound == FirstOfEach(LinesFound, {})

\* C14: a run of data_structures_search over an existing corpus with a valid
\* term prints the id of every record with a matching line once, in the order
\* of the first matching line of each, up to --max of them.
C14_EachIdOnceInOrder ==
    (run.tool = "search" /\ corpus # Absent /\ ~InvalidRegex(run.args.term)) =>
        /\ Len(run.matches) = Smaller(run.args.max, Len(IdsFound))
        /\ \A i \in DOMAIN run.matches : run.matches[i].id = IdsFound[i]

\* a run of data_structures_search with or without rg, again and again
InitFallback ==
    /\ corpus \in {Absent, Some(SearchCorpus), Some(DupCorpus), Some(<<>>)}
    /\ indexFile = Absent /\ docs = Absent /\ titlesFile = Absent /\ propsFile = Absent
    /\ run = NoRun /\ prevFile = Absent
    /\ pos = 0 /\ offset = 0 /\ index = <<>> /\ pc = "tools"
    /\ cache = None /\ reads = 0 /\ call = NoCall
    /\ raw = <<>> /\ norm = None /\ renorm = None
    /\ DownloadIdle /\ AppIdle

NextFallback == \E term \in SearchTerms, max \in Caps, rg \in BOOLEAN : SearchMain(term, max, rg)

SpecFallback == InitFallback /\ [][NextFallback]_vars

MatchesNothing ==
    \/ run.tool = "find_title" /\ titlesFile # Absent /\ AllMatches = <<>>
    \/ run.tool = "title_search" /\ ~run.args.exact /\ AllMatches = <<>>
    \/ run.tool = "property_search" /\ (Truthy(run.args.term) \/ Truthy(run.args.bo))
          /\ propsFile # Absent /\ AllMatches = <<>>
    \/ run.tool = "search" /\ corpus # Absent /\ ~InvalidRegex(run.args.term) /\ LinesFound = <<>>
    \/ run.tool = "docs_search" /\ docs = Some(SearchDocs) /\ LoadModules(The(docs), run.args.bo) # <<>>
          /\ \A i \in DOMAIN IterRecords(LoadModules(The(docs), run.args.bo)) :
                ~IsSubstring(StrLower(run.args.term), DocText(IterRecords(LoadModules(The(docs), run.args.bo))[i].line.fields))
    \/ run.tool = "read" /\ ~IdKnown /\ ~\E i \in DOMAIN ReadIndex : PathFits(i)

\* C16: in every front-end a query that matches nothing ends with a printed
\* "no matches" or "not found" message and exit code 0 or 1, never with an
\* uncaught exception.
C16_NoMatchIsNoException ==
    MatchesNothing =>
        /\ run.exc = ""
        /\ run.out \in {"No matches found.", "Document not found"}
        /\ run.exit \in {0, 1}

(***************************************************************************)
(* build_jsonl_index run again over the corpus it has indexed.             *)
(***************************************************************************)
\* python tools/build_jsonl_index.py once more: a new process, the files as the
\* last run left them; prevFile keeps what that run wrote
Rerun ==
    /\ pc = "built"
    /\ pc' = "start"
    /\ prevFile' = indexFile
    /\ UNCHANGED <<appVars, normVars, corpus, pos, offset, index, storeVars, docs, titlesFile, propsFile, run, dlVars>>

InitRebuild == InitBuild

NextRebuild ==
    \/ BuildMissing
    \/ BuildOpen
    \/ ScanLine
    \/ DumpIndex
    \/ Rerun

\* any number of builds, one after the other, of the index of a corpus that does not change
SpecRebuild == InitRebuild /\ [][NextRebuild]_vars

MaxTickets == 2     \* most tickets of one run

\* the characters SANITIZE_RE replaces
IllegalChars == {"\\", "/", ":", "*", "?", "\"", "<", ">", "|"}

RECURSIVE SanitizeSub(_, _)
\* SANITIZE_RE.sub("_", name): one underscore for every run of illegal characters
SanitizeSub(name, inRun) ==
    IF name = <<>> THEN <<>>
    ELSE IF Head(name) \in IllegalChars
    THEN (IF inRun THEN <<>> ELSE <<"_">>) \o SanitizeSub(Tail(name), TRUE)
    ELSE <<Head(name)>> \o SanitizeSub(Tail(name), FALSE)

RECURSIVE StripDots(_)
\* str.strip(" .")
StripDots(name) ==
    IF name # <<>> /\ Head(name) \in {" ", "."} THEN StripDots(Tail(name))
    ELSE IF name # <<>> /\ name[Len(name)] \in {" ", "."} THEN StripDots(SubSeq(name, 1, Len(name) - 1))
    ELSE name

Str_unnamed == <<"u", "n", "n", "a", "m", "e", "d">>

\* sanitize_filename
sanitize_filename(name) ==
    IF StripDots(SanitizeSub(name, FALSE)) = <<>> THEN Str_unnamed ELSE StripDots(SanitizeSub(name, FALSE))

\* a Ticket, with what its URL serves: the chunks of the stream, and the chunk
\* in place of which the stream raises (0: the stream ends well)
Ticket(uid, named_ref, file_name, file_size, stream, failsAt) ==
    [dataset_uid |-> uid, named_ref |-> named_ref, file_name |-> file_name, file_size |-> file_size,
     stream |-> stream, failsAt |-> failsAt]

\* name = sanitize_filename(ticket.file_name or f"{ticket.dataset_uid}_{ticket.named_ref}.bin")
OutName(t) ==
    sanitize_filename(IF t.file_name # <<>> THEN t.file_name
                      ELSE t.dataset_uid \o <<"_">> \o t.named_ref \o <<".", "b", "i", "n">>)

\* DownloadResult
DownloadResult(ok, path, bytes_written, error, skipped) ==
    [ok |-> ok, path |-> path, bytes_written |-> bytes_written, error |-> error, skipped |-> skipped]

NoResult == DownloadResult(FALSE, None, 0, "", FALSE)

\* the bytes a file shows where nothing was written
Hole == "00"

\* f.write(chunk) at offset off of a file that holds content
WriteAt(content, off, chunk) ==
    LET padded == IF Len(content) < off THEN content \o [i \in 1..(off - Len(content)) |-> Hole] ELSE content
        newLen == IF Len(padded) > off + Len(chunk) THEN Len(padded) ELSE off + Len(chunk)
    IN  [i \in 1..newLen |-> IF i > off /\ i <= off + Len(chunk) THEN chunk[i - off] ELSE padded[i]]

\* the inode of a name, 0 without a file
InodeOf(dir, name) == IF name \in DOMAIN dir THEN dir[name] ELSE 0

\* the name of the temporary file: path.with_suffix(path.suffix + ".part")
PartOf(name) == name \o <<".", "p", "a", "r", "t">>

\* size_of(path)
size_of(name) == IF InodeOf(files.dir, name) = 0 THEN None ELSE Some(Len(files.data[InodeOf(files.dir, name)]))

\* a future of the pool: its ticket, where its thread stands, the file it has
\* open, the place it writes at, the chunk it asks for next, the bytes written
Job(t) == [ticket |-> t, pc |-> "queued", fd |-> 0, off |-> 0, next |-> 1, total |-> 0, result |-> NoResult]

Running == {i \in DOMAIN workers : workers[i].pc \notin {"queued", "done"}}

\* the future is done: its result is set and as_completed yields it
Complete(i, result) ==
    /\ workers' = [workers EXCEPT ![i].pc = "done", ![i].result = result]
    /\ completed' = Append(completed, i)

\* download_one with a skip that looks at the name alone, whatever the sizes
StartDownloadAnySize(i) ==
    /\ workers[i].pc = "queued"
    /\ \A j \in 1..(i - 1) : workers[j].pc # "queued"
    /\ Cardinality(Running) < cfg.max_workers
    /\ LET t == workers[i].ticket
       IN  IF cfg.skip_existing /\ size_of(OutName(t)) # None
           THEN Complete(i, DownloadResult(TRUE, Some(OutName(t)), 0, "", TRUE))
           ELSE /\ workers' = [workers EXCEPT ![i].pc = "open"]
                /\ UNCHANGED completed
    /\ UNCHANGED <<appVars, normVars, buildVars, storeVars, toolVars, cfg, files, audit>>

\* download_one up to its "Idempotent skip": a free pool thread takes the first
\* ticket of the queue and looks at the size of the file of its name
StartDownload(i) ==
    /\ workers[i].pc = "queued"
    /\ \A j \in 1..(i - 1) : workers[j].pc # "queued"
    /\ Cardinality(Running) < cfg.max_workers
    /\ LET t == workers[i].ticket
           existing_size == size_of(OutName(t))
       IN  IF cfg.skip_existing /\ existing_size # None /\ t.file_size # None /\ existing_size = t.file_size
           THEN Complete(i, DownloadResult(TRUE, Some(OutName(t)), 0, "", TRUE))
           ELSE /\ workers' = [workers EXCEPT ![i].pc = "open"]
                /\ UNCHANGED completed
    /\ UNCHANGED <<appVars, normVars, buildVars, storeVars, toolVars, cfg, files, audit>>

\* atomic_write: open(tmp, "wb") makes the file, or empties the one of that name
OpenPart(i) ==
    /\ workers[i].pc = "open"
    /\ LET tmp == PartOf(OutName(workers[i].ticket))
           old == InodeOf(files.dir, tmp)
           inode == IF old = 0 THEN Len(files.data) + 1 ELSE old
       IN  /\ files' = [dir  |-> [n \in DOMAIN files.dir \cup {tmp} |-> IF n = tmp THEN inode ELSE files.dir[n]],
                        data |-> IF old = 0 THEN Append(files.data, <<>>) ELSE [files.data EXCEPT ![old] = <<>>]]
           /\ workers' = [workers EXCEPT ![i].pc = "stream", ![i].fd = inode, ![i].off = 0]
    /\ UNCHANGED <<appVars, normVars, buildVars, storeVars, toolVars, cfg, completed, audit>>

\* atomic_write: one turn of "for chunk in stream_iter", the stream raising in
\* place of a chunk, or f.flush(), os.fsync() and the close at its end
NextChunk(i) ==
    /\ workers[i].pc = "stream"
    /\ LET w == workers[i]
           t == w.ticket
       IN  IF t.failsAt = w.next
           THEN /\ Complete(i, DownloadResult(FALSE, None, 0, "stream error", FALSE))
                /\ UNCHANGED files
           ELSE IF w.next > Len(t.stream)
           THEN /\ workers' = [workers EXCEPT ![i].pc = "rename"]
                /\ UNCHANGED <<files, completed>>
           ELSE IF t.stream[w.next] = <<>>
           THEN /\ workers' = [workers EXCEPT ![i].next = w.next + 1]
                /\ UNCHANGED <<files, completed>>
           ELSE /\ files' = [files EXCEPT !.data[w.fd] = WriteAt(files.data[w.fd], w.off, t.stream[w.next])]
                /\ workers' = [workers EXCEPT ![i].next = w.next + 1,
                                              ![i].off = w.off + Len(t.stream[w.next]),
                                              ![i].total = w.total + Len(t.stream[w.next])]
                /\ UNCHANGED completed
    /\ UNCHANGED <<appVars, normVars, buildVars, storeVars, toolVars, cfg, audit>>

\* atomic_write: tmp.replace(path), and the rest of download_one: the size test
\* and the result; a tmp that is gone raises FileNotFoundError
Replace(i) ==
    /\ workers[i].pc = "rename"
    /\ LET w == workers[i]
           t == w.ticket
           name == OutName(t)
           tmp == PartOf(name)
       IN  IF InodeOf(files.dir, tmp) = 0
           THEN /\ Complete(i, DownloadResult(FALSE, None, 0, "FileNotFoundError", FALSE))
                /\ UNCHANGED files
           ELSE /\ files' = [files EXCEPT
                                !.dir = [n \in (DOMAIN files.dir \cup {name}) \ {tmp} |->
                                            IF n = name THEN files.dir[tmp] ELSE files.dir[n]]]
                /\ IF t.file_size # None /\ w.total # The(t.file_size)
                   THEN Complete(i, DownloadResult(FALSE, Some(name), w.total, "Size mismatch", FALSE))
                   ELSE Complete(i, DownloadResult(TRUE, Some(name), w.total, "", FALSE))
    /\ UNCHANGED <<appVars, normVars, buildVars, storeVars, toolVars, cfg, audit>>

\* the event of run() for ticket t and result res
DownloadEvent(k, t, res) ==
    [event |-> "download", ticket |-> k, dataset_uid |-> t.dataset_uid, named_ref |-> t.named_ref,
     file_name |-> t.file_name, ok |-> res.ok, skipped |-> res.skipped, bytes |-> res.bytes_written,
     error |-> res.error, path |-> res.path]

\* the download events of the audit file, in the order written
Downloads(events) == SelectSeq(events, LAMBDA e : e.event = "download")

\* run(): one turn of "for fut, t in zip(as_completed(futures), all_tickets)":
\* the next future to complete, the next ticket of the list, audit.write(event)
WriteAudit ==
    /\ Len(Downloads(audit)) < Len(completed)
    /\ LET k == Len(Downloads(audit)) + 1
       IN  audit' = Append(audit, DownloadEvent(k, workers[k].ticket, workers[completed[k]].result))
    /\ UNCHANGED <<appVars, normVars, buildVars, storeVars, toolVars, cfg, files, workers, completed>>

Str_PDF == <<"P", "D", "F">>
Str_f == <<"f", ".", "p">>
Str_g == <<"g", ".", "p">>

T_A == Ticket(<<"A">>, Str_PDF, Str_f, Some(3), <<<<"a1", "a2">>, <<>>, <<"a3">>>>, 0)
T_B == Ticket(<<"B">>, Str_PDF, Str_g, Some(2), <<<<"b1">>, <<"b2">>>>, 0)
\* another dataset whose file has the name of T_A's
T_C == Ticket(<<"C">>, Str_PDF, Str_f, Some(2), <<<<"c1">>, <<"c2">>>>, 0)
\* the stream breaks after its first chunk
T_D == Ticket(<<"D">>, Str_PDF, <<"h", ".", "p">>, Some(2), <<<<"d1">>, <<"d2">>>>, 2)
\* the stream ends short of file_size
T_E == Ticket(<<"E">>, Str_PDF, <<"k", ":", "p">>, Some(3), <<<<"e1">>>>, 0)
\* no file name and no size
T_F == Ticket(<<"F">>, Str_PDF, <<>>, None, <<<<"f1">>>>, 0)

TicketChoices == {T_A, T_B, T_C, T_D, T_E, T_F}

\* all_tickets: tickets of different datasets
TicketLists ==
    {ts \in UNION {[1..n -> TicketChoices] : n \in 1..MaxTickets} :
        \A i, j \in DOMAIN ts : i # j => ts[i] # ts[j]}

\* what the output directory holds at the start: nothing, or a file f.p of three bytes
OldContent == <<"o1", "o2", "o3">>
NoFiles == [dir |-> <<>>, data |-> <<>>]
OldFiles == [dir |-> [n \in {Str_f} |-> 1], data |-> <<OldContent>>]

\* run() at its "Downloads": the tickets are there and the pool has them all
InitDownload ==
    /\ cfg \in [skip_existing : BOOLEAN, max_workers : {1, MaxTickets}]
    /\ files \in {NoFiles, OldFiles}
    /\ \E ts \in TicketLists : workers = [i \in DOMAIN ts |-> Job(ts[i])]
    /\ completed = <<>> /\ audit = <<>>
    /\ ToolsIdle /\ AppIdle
    /\ corpus = Absent /\ pos = 0 /\ offset = 0 /\ index = <<>> /\ pc = "download"
    /\ indexFile = Absent /\ cache = None /\ reads = 0 /\ call = NoCall
    /\ raw = <<>> /\ norm = None /\ renorm = None

NextDownload ==
    \/ \E i \in DOMAIN workers : StartDownload(i)
    \/ \E i \in DOMAIN workers : OpenPart(i)
    \/ \E i \in DOMAIN workers : NextChunk(i)
    \/ \E i \in DOMAIN workers : Replace(i)
    \/ WriteAudit

\* the downloads of one run, the pool threads taking their steps in any order
SpecDownload == InitDownload /\ [][NextDownload]_vars

(***************************************************************************)
(* Properties of the audit file and of the files downloaded.               *)
(***************************************************************************)
\* C19: whatever the order in which the pool threads finish, the audit file
\* holds at most one download event per ticket, one for each when the run is
\* over, and the ok, skipped, bytes, error and path of an event are those of
\* the result of download_one for the ticket the event names.
C19_EventIsOfItsTicket ==
    /\ \A j, k \in DOMAIN audit : audit[j].ticket = audit[k].ticket => j = k
    /\ (Len(completed) = Len(workers) /\ ~ENABLED WriteAudit) =>
          \A i \in DOMAIN workers : \E k \in DOMAIN audit : audit[k].ticket = i
    /\ \A k \in DOMAIN audit :
          LET e == audit[k]
              w == workers[e.ticket]
          IN  /\ w.pc = "done"
              /\ e.dataset_uid = w.ticket.dataset_uid /\ e.file_name = w.ticket.file_name
              /\ e.ok = w.result.ok /\ e.skipped = w.result.skipped /\ e.bytes = w.result.bytes_written
              /\ e.error = w.result.error /\ e.path = w.result.path

RECURSIVE Flatten(_)
\* the bytes of a stream
Flatten(stream) == IF stream = <<>> THEN <<>> ELSE Head(stream) \o Flatten(Tail(stream))

\* C20: at every moment a final output path does not exist, holds the
\* content it had before the run, or holds the whole stream of one ticket,
\* also when a stream breaks midway and when several tickets are downloaded
\* at once.
C20_FinalPathIsWhole ==
    \A i \in DOMAIN workers :
        LET name == OutName(workers[i].ticket)
            content == files.data[InodeOf(files.dir, name)]
        IN  \/ InodeOf(files.dir, name) = 0
            \/ content = OldContent
            \/ \E j \in DOMAIN workers : content = Flatten(workers[j].ticket.stream)

\* C26: a download that ends in a size mismatch (the bytes streamed are not the
\* file_size the ticket gave) has installed nothing: the final output path of
\* its ticket is as it was before the download, absent or with its old content.
C26_MismatchInstallsNothing ==
    \A i \in DOMAIN workers :
        (workers[i].pc = "done" /\ workers[i].result.error = "Size mismatch") =>
            LET name == OutName(workers[i].ticket)
            IN  \/ InodeOf(files.dir, name) = 0
                \/ files.data[InodeOf(files.dir, name)] = OldContent

(***************************************************************************)
(* run() twice over the same tickets and the same output directory: the    *)
(* second run starts when the first has written its last audit event, and  *)
(* writes an audit file of its own.  orch.before is the directory as the   *)
(* run under way found it, orch.clean whether every download of the run    *)
(* before ended ok.                                                        *)
(***************************************************************************)
RunAgain ==
    /\ orch.run = 1
    /\ \A i \in DOMAIN workers : workers[i].pc = "done"
    /\ Len(audit) = Len(workers)
    /\ workers' = [i \in DOMAIN workers |-> Job(workers[i].ticket)]
    /\ completed' = <<>>
    /\ audit' = <<>>
    /\ orch' = [run |-> 2, before |-> files, clean |-> \A i \in DOMAIN workers : workers[i].result.ok]
    /\ UNCHANGED <<normVars, buildVars, storeVars, toolVars, cfg, files, sessVars, guiVars>>

InitRerun ==
    /\ cfg \in [skip_existing : BOOLEAN, max_workers : 1..2]
    /\ files \in {NoFiles, OldFiles}
    /\ \E ts \in TicketLists : workers = [i \in DOMAIN ts |-> Job(ts[i])]
    /\ completed = <<>> /\ audit = <<>>
    /\ orch = [run |-> 1, before |-> files, clean |-> FALSE]
    /\ ToolsIdle /\ SessionIdle /\ GuiIdle
    /\ corpus = Absent /\ pos = 0 /\ offset = 0 /\ index = <<>> /\ pc = "download"
    /\ indexFile = Absent /\ cache = None /\ reads = 0 /\ call = NoCall
    /\ raw = <<>> /\ norm = None /\ renorm = None

NextRerun ==
    \/ \E i \in DOMAIN workers : StartDownload(i)
    \/ \E i \in DOMAIN workers : OpenPart(i)
    \/ \E i \in DOMAIN workers : NextChunk(i)
    \/ \E i \in DOMAIN workers : Replace(i)
    \/ WriteAudit
    \/ RunAgain

SpecRerun == InitRerun /\ [][NextRerun]_vars

\* the file at the ticket's output path has the size the ticket gives
HasWantedSize(t) ==
    /\ InodeOf(files.dir, OutName(t)) # 0
    /\ t.file_size # None
    /\ Len(files.data[InodeOf(files.dir, OutName(t))]) = The(t.file_size)

\* no other ticket of the run is written to the output path of ticket i
OwnName(i) ==
    \A j \in DOMAIN workers : j # i => OutName(workers[j].ticket) # OutName(workers[i].ticket)

\* C21 as stated: with skip_existing, a second run after a first run whose
\* downloads all ended ok writes nothing (here for tickets that each have an
\* output path of their own).
C21_SecondRunWritesNothing ==
    (orch.run = 2 /\ orch.clean /\ cfg.skip_existing /\ \A i \in DOMAIN workers : OwnName(i))
        => files = orch.before

\* C21: with skip_existing, download_one for a ticket whose target exists with
\* the size the ticket gives issues no download, leaves the files as they are
\* and returns ok, skipped, 0 bytes; any other ticket, one of unknown size
\* among them, goes on to download.  In a second run after a first run whose
\* downloads all ended ok, every ticket of known size with an output path of
\* its own is skipped, and when all tickets are such, nothing is written.
C21_SkipExistingIsIdempotent ==
    /\ [][\A i \in DOMAIN workers :
            (workers[i].pc = "queued" /\ workers'[i].pc # "queued") =>
                IF cfg.skip_existing /\ HasWantedSize(workers[i].ticket)
                THEN /\ workers'[i].pc = "done"
                     /\ workers'[i].result =
                            DownloadResult(TRUE, Some(OutName(workers[i].ticket)), 0, "", TRUE)
                     /\ workers'[i].fd = 0
                     /\ files' = files
                ELSE workers'[i].pc = "open"]_vars
    /\ [](\A i \in DOMAIN workers :
            (workers[i].pc = "done" /\ workers[i].result.skipped) => workers[i].ticket.file_size # None)
    /\ []((orch.run = 2 /\ orch.clean /\ cfg.skip_existing) =>
            /\ \A i \in DOMAIN workers :
                  (OwnName(i) /\ workers[i].ticket.file_size # None) =>
                      \/ workers[i].pc = "queued"
                      \/ workers[i].pc = "done" /\ workers[i].result.skipped
            /\ (\A i \in DOMAIN workers : OwnName(i) /\ workers[i].ticket.file_size # None)
                  => files = orch.before)

\* C21's case: the second run of two tickets is over, each skipped, over the
\* files a clean first run left.
C21_Witness ==
    /\ orch.run = 2 /\ orch.clean /\ cfg.skip_existing
    /\ Len(workers) = 2
    /\ \A i \in DOMAIN workers : workers[i].pc = "done" /\ workers[i].result.skipped
    /\ files = orch.before /\ files.dir # <<>>

(***************************************************************************)
(* run() as a whole: the de-duplicated input rows are sent for tickets in  *)
(* batches, every ticket obtained goes to the pool, and the exit code is   *)
(* computed from err_count, which the audit loop raises by one for every   *)
(* download event that is not ok.  dry_run is off.                         *)
(***************************************************************************)
\* InputRow
InputRow(uid) == [dataset_uid |-> uid, dataset_ref |-> Str_PDF]

\* the ticket the server has for a dataset
TicketOf(uid) == CHOOSE t \in TicketChoices : t.dataset_uid = uid

\* the event run() writes for a row of a batch whose ticket request failed
TicketErrorEvent(r) ==
    [event |-> "ticket_error", dataset_uid |-> r.dataset_uid, named_ref |-> r.dataset_ref, error |-> "HTTPError"]

\* err_count when the audit loop is over
err_count == Cardinality({k \in DOMAIN audit : audit[k].event = "download" /\ ~audit[k].ok})

RECURSIVE TicketsFor(_, _)
\* get_bulk_tickets: the tickets of the response, an entry without "ticket" or
\* "url" skipped with a warning
TicketsFor(batch, answered) ==
    IF batch = <<>> THEN <<>>
    ELSE (IF Head(batch).dataset_uid \in answered THEN <<TicketOf(Head(batch).dataset_uid)>> ELSE <<>>)
         \o TicketsFor(Tail(batch), answered)

\* one turn of "for batch in chunked(inputs, cfg.batch_size)": the request
\* raises and every row of the batch gets a ticket_error event, or the
\* response has a ticket for some of the rows
GetBulkTickets ==
    /\ orch.pc = "tickets"
    /\ orch.next <= Len(orch.inputs)
    /\ LET last == IF orch.next + cfg.batch_size - 1 < Len(orch.inputs)
                   THEN orch.next + cfg.batch_size - 1 ELSE Len(orch.inputs)
           batch == SubSeq(orch.inputs, orch.next, last)
       IN  \/ /\ audit' = audit \o [i \in DOMAIN batch |-> TicketErrorEvent(batch[i])]
              /\ orch' = [orch EXCEPT !.next = last + 1]
           \/ /\ \E answered \in SUBSET {batch[i].dataset_uid : i \in DOMAIN batch} :
                    orch' = [orch EXCEPT !.next = last + 1,
                                         !.all_tickets = orch.all_tickets \o TicketsFor(batch, answered)]
              /\ UNCHANGED audit
    /\ UNCHANGED <<normVars, buildVars, storeVars, toolVars, cfg, files, workers, completed, sessVars, guiVars>>

\* "for t in all_tickets: futures.append(ex.submit(download_one, ...))"
SubmitAll ==
    /\ orch.pc = "tickets"
    /\ orch.inputs # <<>>
    /\ orch.next > Len(orch.inputs)
    /\ workers' = [i \in DOMAIN orch.all_tickets |-> Job(orch.all_tickets[i])]
    /\ orch' = [orch EXCEPT !.pc = "downloads"]
    /\ UNCHANGED <<normVars, buildVars, storeVars, toolVars, cfg, files, completed, audit, sessVars, guiVars>>

\* "if not inputs: return 0", and "return 0 if err_count == 0 else 2" when the
\* audit loop has gone through every future
Return ==
    /\ \/ orch.pc = "tickets" /\ orch.inputs = <<>>
       \/ orch.pc = "downloads" /\ Len(Downloads(audit)) = Len(workers)
    /\ orch' = [orch EXCEPT !.pc = "returned", !.exit = Some(IF err_count = 0 THEN 0 ELSE 2)]
    /\ UNCHANGED <<normVars, buildVars, storeVars, toolVars, dlVars, sessVars, guiVars>>

\* the datasets of the input file
InputUids == {<<"A">>, <<"B">>, <<"D">>, <<"E">>}

\* load_inputs: rows of different datasets
InputLists ==
    {rs \in UNION {[1..n -> {InputRow(u) : u \in InputUids}] : n \in 0..MaxTickets} :
        \A i, j \in DOMAIN rs : i # j => rs[i] # rs[j]}

InitRun ==
    /\ cfg \in [skip_existing : {TRUE}, max_workers : 1..2, batch_size : 1..2]
    /\ files = NoFiles
    /\ workers = <<>> /\ completed = <<>> /\ audit = <<>>
    /\ \E rs \in InputLists :
          orch = [pc |-> "tickets", inputs |-> rs, next |-> 1, all_tickets |-> <<>>, exit |-> None]
    /\ ToolsIdle /\ SessionIdle /\ GuiIdle
    /\ corpus = Absent /\ pos = 0 /\ offset = 0 /\ index = <<>> /\ pc = "run"
    /\ indexFile = Absent /\ cache = None /\ reads = 0 /\ call = NoCall
    /\ raw = <<>> /\ norm = None /\ renorm = None

NextRun ==
    \/ GetBulkTickets
    \/ SubmitAll
    \/ \E i \in DOMAIN workers : StartDownload(i)
    \/ \E i \in DOMAIN workers : OpenPart(i)
    \/ \E i \in DOMAIN workers : NextChunk(i)
    \/ \E i \in DOMAIN workers : Replace(i)
    \/ WriteAudit
    \/ Return

SpecRun == InitRun /\ [][NextRun]_vars

\* C27: run returns 0 only if every input row ended in a download that is ok
\* (downloaded or skipped): a failed ticket request, a row without a ticket
\* and a failed download each make the exit code non-zero.
C27_ExitZeroOnlyIfAllDownloaded ==
    orch.exit = Some(0) =>
        \A r \in DOMAIN orch.inputs :
            \E i \in DOMAIN workers :
                /\ workers[i].ticket.dataset_uid = orch.inputs[r].dataset_uid
                /\ workers[i].pc = "done" /\ workers[i].result.ok

\* C28: whatever the module files hold, build_title_index runs to its end and
\* writes titles.json: a blank line, a line that is no JSON and a line of JSON
\* that is no object are skipped, none of them ends the build.
C28_TitleBuildRunsToCompletion ==
    (run.tool = "build_title_index" /\ docs # Absent) =>
        /\ run.exc = "" /\ run.exit = 0
        /\ titlesFile # Absent

(***************************************************************************)
(* ClientX/Session.py: Session.connection is a class attribute that the    *)
(* first Session(host) sets.  A Connection object is its number in the     *)
(* order of construction, its host and its TCCS_ENV_NAME option; init is   *)
(* the last Session(host): its number, its host, the exception it raised   *)
(* and what it found (Session.connection and the objects made so far).     *)
(***************************************************************************)
MaxSessions == 3    \* most Session(host) constructions of one process

\* str.startswith
StartsWith(s, prefix) == Len(prefix) <= Len(s) /\ SubSeq(s, 1, Len(prefix)) = prefix

Str_http == <<"h", "t", "t", "p">>
Str_tccs == <<"t", "c", "c", "s">>

\* host.split("/", 1)[1], None when the host has no "/" or nothing after it
EnvNameTccs(host) ==
    IF \E i \in DOMAIN host : host[i] = "/"
    THEN LET i == CHOOSE k \in DOMAIN host : host[k] = "/" /\ \A j \in 1..(k - 1) : host[j] # "/"
         IN  IF i < Len(host) THEN Some(SubSeq(host, i + 1, Len(host))) ELSE None
    ELSE None

\* TcSoaClient.Connection(host, ...) with its options set
Connection(id, host) ==
    [id |-> id, ServerHost |-> host,
     tccs_env |-> IF StartsWith(host, Str_tccs) THEN EnvNameTccs(host) ELSE None]

\* the last Session(host)
InitCall(n, host, raised) ==
    [n |-> n, host |-> host, raised |-> raised, before |-> connection, madeBefore |-> made]

\* Session.__init__ without its first test: every construction connects anew
SessionInitAnew(host, failure) ==
    /\ init.n < MaxSessions
    /\ init' = InitCall(init.n + 1, host, IF failure = "none" THEN "" ELSE "Exception")
    /\ made' = made + 1
    /\ connection' = IF failure = "none" THEN Some(Connection(made + 1, host)) ELSE None
    /\ UNCHANGED <<normVars, buildVars, storeVars, toolVars, dlVars, orch, credentialManager, env, login, guiVars>>

\* Session.__init__(host); failure says where the SOA client raises, if it
\* does: in the Connection constructor, or in the calls that set the object up
SessionInit(host, failure) ==
    /\ init.n < MaxSessions
    /\ IF connection # None
       THEN /\ init' = InitCall(init.n + 1, host, "")
            /\ UNCHANGED <<connection, made>>
       ELSE IF ~StartsWith(host, Str_http) /\ ~StartsWith(host, Str_tccs)
       THEN /\ init' = InitCall(init.n + 1, host, "ValueError")
            /\ UNCHANGED <<connection, made>>
       ELSE IF failure = "constructor"
       THEN /\ init' = InitCall(init.n + 1, host, "Exception")
            /\ connection' = None
            /\ UNCHANGED made
       ELSE IF failure = "setup"
       THEN /\ init' = InitCall(init.n + 1, host, "Exception")
            /\ connection' = None
            /\ made' = made + 1
       ELSE /\ init' = InitCall(init.n + 1, host, "")
            /\ connection' = Some(Connection(made + 1, host))
            /\ made' = made + 1
    /\ UNCHANGED <<normVars, buildVars, storeVars, toolVars, dlVars, orch, credentialManager, env, login, guiVars>>

\* the hosts asked for: two HTTP servers, TCCS with and without an
\* environment name, and two hosts of no supported protocol
Hosts ==
    {Str_http \o <<":", "/", "/", "a">>, Str_http \o <<":", "/", "/", "b">>,
     Str_tccs \o <<"/", "E">>, Str_tccs, <<"f", "t", "p", ":", "a">>, <<>>}

Failures == {"none", "constructor", "setup"}

InitSession ==
    /\ connection = None /\ made = 0
    /\ init = [n |-> 0, host |-> <<>>, raised |-> "", before |-> None, madeBefore |-> 0]
    /\ credentialManager = <<>> /\ env = <<>> /\ login = <<>>
    /\ ToolsIdle /\ DownloadIdle /\ RunIdle /\ GuiIdle
    /\ corpus = Absent /\ pos = 0 /\ offset = 0 /\ index = <<>> /\ pc = "session"
    /\ indexFile = Absent /\ cache = None /\ reads = 0 /\ call = NoCall
    /\ raw = <<>> /\ norm = None /\ renorm = None

NextSession == \E host \in Hosts, failure \in Failures : SessionInit(host, failure)

SpecSession == InitSession /\ [][NextSession]_vars

\* C22: Session.connection holds at most one connection.  A Session(host)
\* that finds a connection, for the same host or another, returns without
\* raising, makes no Connection object and leaves the one it found in place;
\* a Session(host) that raises (host of no supported protocol, or an error
\* while connecting) leaves Session.connection None; and a connection in
\* place is the last object made, for the host it was asked for.
C22_AtMostOneConnection ==
    /\ init.before # None =>
          /\ connection = init.before
          /\ made = init.madeBefore
          /\ init.raised = ""
    /\ init.raised # "" => connection = None
    /\ (init.n > 0 /\ init.before = None /\ init.raised = "") =>
          /\ connection = Some(Connection(made, init.host))
          /\ made = init.madeBefore + 1
    /\ connection # None => The(connection).id = made

\* C22's case: a third Session(host), for another host than the connection's,
\* after a construction that failed and one that connected.
C22_Witness ==
    /\ init.n = 3
    /\ init.before # None
    /\ init.host # The(init.before).ServerHost
    /\ made = 2
    /\ connection = init.before

(***************************************************************************)
(* Session.login and the credential manager, in the two packages (env.pkg  *)
(* says which one runs).  None and the empty string are both <<>>, as the  *)
(* code tests them by truth value only.  At a prompt the user types a name *)
(* and a password, or ends the input; the server accepts one name with one *)
(* password.  login.prompts counts the prompts answered, and every Login   *)
(* call is kept in login.submitted with the count at its time.             *)
(***************************************************************************)
MaxAttempts == 3    \* most Login calls of one login()

Str_u == <<"u">>
Str_good == <<"g", "o", "o", "d">>
Str_bad == <<"b", "a", "d">>
Str_hv == <<"h", "v", "a", "n", "n", "i", "e", "k", "e", "r", "k">>

\* tokens = [self.name or "", self.password or "", self.group or "", self.role or "", self.discriminator]
Tokens(cm) == [user |-> cm.name, password |-> cm.password, group |-> cm.group, role |-> cm.role]

\* what the user does at a prompt: name and password typed, or the input ended
Typed(name, password) == [eof |-> FALSE, name |-> name, password |-> password]
EndOfInput == [eof |-> TRUE, name |-> <<>>, password |-> <<>>]

\* PromptForCredentials: the manager afterwards, whether it prompted, whether
\* it raised CanceledOperationException
PromptForCredentials(cm, answer) ==
    IF env.TCUSER # <<>> /\ env.TCPASSWORD # <<>>
    THEN [cm |-> [cm EXCEPT !.name = env.TCUSER, !.password = env.TCPASSWORD],
          prompted |-> FALSE, cancelled |-> FALSE]
    ELSE IF cm.name # <<>> /\ cm.password # <<>>
    THEN [cm |-> cm, prompted |-> FALSE, cancelled |-> FALSE]
    ELSE IF answer.eof
    THEN [cm |-> cm, prompted |-> TRUE, cancelled |-> TRUE]
    ELSE IF env.pkg = "ClientX"
    THEN IF answer.name = <<>> /\ cm.name = <<>>
         THEN [cm |-> cm, prompted |-> TRUE, cancelled |-> TRUE]
         ELSE [cm |-> [cm EXCEPT !.name = IF answer.name = <<>> THEN cm.name ELSE answer.name,
                                 !.password = answer.password],
               prompted |-> TRUE, cancelled |-> FALSE]
    ELSE LET default_user == IF cm.name # <<>> THEN cm.name
                             ELSE IF env.TCUSER # <<>> THEN env.TCUSER ELSE Str_hv
         IN  [cm |-> [cm EXCEPT !.name = IF answer.name = <<>> THEN default_user ELSE answer.name,
                                !.password = answer.password],
              prompted |-> TRUE, cancelled |-> FALSE]

\* login() returns
LoginReturns(result) == login' = [login EXCEPT !.pc = "done", !.result = result]

\* the credentials are taken from the manager: before the loop in ClientX, at
\* the top of the loop in HelloTeamcenter
Prompt(answer) ==
    /\ login.pc = "prompt"
    /\ LET p == PromptForCredentials(credentialManager, answer)
       IN  /\ credentialManager' = p.cm
           /\ IF p.cancelled
              THEN LoginReturns("None")
              ELSE login' = [login EXCEPT !.pc = "login", !.credentials = Tokens(p.cm),
                                          !.prompts = login.prompts + (IF p.prompted THEN 1 ELSE 0)]
    /\ UNCHANGED <<normVars, buildVars, storeVars, toolVars, dlVars, orch, connection, made, init, env, guiVars>>

\* the server takes one name with one password
Accepted(c) == c.user = Str_u /\ c.password = Str_good

\* the test of the credentials and session_service.Login: "not all(credentials)"
\* in ClientX, "not username or not password" in HelloTeamcenter
Login ==
    /\ login.pc = "login"
    /\ Len(login.submitted) < MaxAttempts
    /\ LET c == login.credentials
           incomplete == IF env.pkg = "ClientX"
                         THEN c.user = <<>> \/ c.password = <<>> \/ c.group = <<>> \/ c.role = <<>>
                         ELSE c.user = <<>> \/ c.password = <<>>
           sent == Append(login.submitted, [user |-> c.user, password |-> c.password, prompts |-> login.prompts])
       IN  IF incomplete THEN LoginReturns("None")
           ELSE IF Accepted(c) THEN login' = [login EXCEPT !.pc = "done", !.result = "User", !.submitted = sent]
           ELSE login' = [login EXCEPT !.pc = "rejected", !.submitted = sent]
    /\ UNCHANGED <<normVars, buildVars, storeVars, toolVars, dlVars, orch, connection, made, init,
                   credentialManager, env, guiVars>>

\* the except branch for InvalidCredentialsException: GetCredentials(e), which
\* HelloTeamcenter begins by forgetting the password, and whose tokens ClientX
\* logs in with next while HelloTeamcenter drops them and asks the manager again
GetCredentials(answer) ==
    /\ login.pc = "rejected"
    /\ LET cm == IF env.pkg = "ClientX" THEN credentialManager
                 ELSE [credentialManager EXCEPT !.password = <<>>]
           p == PromptForCredentials(cm, answer)
       IN  /\ credentialManager' = p.cm
           /\ IF p.cancelled
              THEN LoginReturns("None")
              ELSE login' = [login EXCEPT
                                !.pc = IF env.pkg = "ClientX" THEN "login" ELSE "prompt",
                                !.credentials = IF env.pkg = "ClientX" THEN Tokens(p.cm) ELSE login.credentials,
                                !.prompts = login.prompts + (IF p.prompted THEN 1 ELSE 0)]
    /\ UNCHANGED <<normVars, buildVars, storeVars, toolVars, dlVars, orch, connection, made, init, env, guiVars>>

Answers == {EndOfInput} \cup {Typed(n, pw) : n \in {<<>>, Str_u}, pw \in {<<>>, Str_good, Str_bad}}

\* the manager when login() is called: nothing cached or a name and password
\* set by the caller, the default group and role or ones set by SetGroupRole
Managers ==
    {[name |-> n[1], password |-> n[2], group |-> g[1], role |-> g[2]] :
        n \in {<<<<>>, <<>>>>, <<Str_u, Str_good>>, <<Str_u, Str_bad>>},
        g \in {<<<<>>, <<>>>>, <<<<"g">>, <<"r">>>>}}

Environments ==
    [pkg : {"ClientX", "HelloTeamcenter"}, TCUSER : {<<>>, Str_u}, TCPASSWORD : {<<>>, Str_good, Str_bad}]

InitLogin ==
    /\ env \in Environments
    /\ credentialManager \in Managers
    /\ login = [pc |-> "prompt", credentials |-> <<>>, submitted |-> <<>>, prompts |-> 0, result |-> ""]
    /\ connection = Some(Connection(1, Str_http \o <<":", "/", "/", "a">>)) /\ made = 1
    /\ init = [n |-> 1, host |-> Str_http \o <<":", "/", "/", "a">>, raised |-> "", before |-> None, madeBefore |-> 0]
    /\ ToolsIdle /\ DownloadIdle /\ RunIdle /\ GuiIdle
    /\ corpus = Absent /\ pos = 0 /\ offset = 0 /\ index = <<>> /\ pc = "login"
    /\ indexFile = Absent /\ cache = None /\ reads = 0 /\ call = NoCall
    /\ raw = <<>> /\ norm = None /\ renorm = None

NextLogin ==
    \/ \E answer \in Answers : Prompt(answer)
    \/ Login
    \/ \E answer \in Answers : GetCredentials(answer)

SpecLogin == InitLogin /\ [][NextLogin]_vars

\* C23: after a Login call that the server rejected, the next Login call of
\* the same login() is made with credentials the user was asked for in
\* between: the rejected credentials are never sent again as they were,
\* whether they came from TCUSER/TCPASSWORD, from the manager's cached name
\* and password, or from a prompt.
C23_RejectedCredentialsNotResubmitted ==
    \A k \in 1..(Len(login.submitted) - 1) :
        login.submitted[k + 1].prompts > login.submitted[k].prompts

(***************************************************************************)
(* get_drawings.App: the Tk thread runs its handlers (_start, _cancel,     *)
(* _pump, _on_closing) one at a time, the worker thread runs _run and      *)
(* tc_utils.worker_download beside it.  _pump is three steps, since the    *)
(* worker runs between them: the get_nowait calls, the queue.Empty that    *)
(* ends them, and the is_alive test.  A message is its kind, the run that  *)
(* put it, and whether cancel_evt was set when it was put; shown holds the *)
(* messages _pump displayed; gui.cancelRun and gui.cancelAt are the run    *)
(* under way and the items it had started when the flag was last raised.   *)
(***************************************************************************)
MaxItems == 2       \* most item ids of one run
MaxRuns == 2        \* most downloads started from one window

\* threading.Thread.is_alive()
is_alive == worker.pc \notin {"none", "dead"}

Msg(kind) == [kind |-> kind, run |-> worker.run, cancelled |-> cancel_evt]

\* q.put((kind, payload)) by the worker
Put(kind) == queue' = Append(queue, Msg(kind))

\* _start that leaves cancel_evt as it is
StartKeepingFlag(n) ==
    /\ gui.pc = "idle"
    /\ IF is_alive \/ n = 0
       THEN UNCHANGED <<worker, gui, shown>>
       ELSE /\ worker.run < MaxRuns
            /\ UNCHANGED shown
            /\ worker' = [pc |-> "connect", run |-> worker.run + 1, n |-> n, started |-> 0]
            /\ gui' = [gui EXCEPT !.pending = gui.pending + 1]
    /\ UNCHANGED <<normVars, buildVars, storeVars, toolVars, dlVars, orch, sessVars, queue, cancel_evt>>

\* _start with n item ids in the text box: "Busy" while a worker is alive, an
\* error box without item ids, else the flag is cleared, the worker thread
\* started and _pump scheduled
Start(n) ==
    /\ gui.pc = "idle"
    /\ IF is_alive \/ n = 0
       THEN UNCHANGED <<worker, cancel_evt, gui, shown>>
       ELSE /\ worker.run < MaxRuns
            /\ cancel_evt' = FALSE
            /\ UNCHANGED shown
            /\ worker' = [pc |-> "connect", run |-> worker.run + 1, n |-> n, started |-> 0]
            /\ gui' = [gui EXCEPT !.pending = gui.pending + 1]
    /\ UNCHANGED <<normVars, buildVars, storeVars, toolVars, dlVars, orch, sessVars, queue>>

\* _cancel
Cancel ==
    /\ gui.pc = "idle"
    /\ IF is_alive
       THEN /\ cancel_evt' = TRUE
            /\ gui' = IF cancel_evt THEN gui
                      ELSE [gui EXCEPT !.cancelRun = worker.run, !.cancelAt = worker.started]
       ELSE UNCHANGED <<cancel_evt, gui>>
    /\ UNCHANGED <<normVars, buildVars, storeVars, toolVars, dlVars, orch, sessVars, queue, worker, shown>>

\* _on_closing: the flag is set if a worker is alive, join waits two seconds at
\* most, and the window is destroyed
OnClosing ==
    /\ gui.pc = "idle"
    /\ IF is_alive
       THEN /\ cancel_evt' = TRUE
            /\ gui' = IF cancel_evt THEN [gui EXCEPT !.pc = "closed"]
                      ELSE [gui EXCEPT !.pc = "closed", !.cancelRun = worker.run, !.cancelAt = worker.started]
       ELSE /\ gui' = [gui EXCEPT !.pc = "closed"]
            /\ UNCHANGED cancel_evt
    /\ UNCHANGED <<normVars, buildVars, storeVars, toolVars, dlVars, orch, sessVars, queue, worker, shown>>

\* the timer of after(..., self._pump) fires
PumpBegin ==
    /\ gui.pc = "idle"
    /\ gui.pending > 0
    /\ gui' = [gui EXCEPT !.pc = "drain", !.pending = gui.pending - 1]
    /\ UNCHANGED <<normVars, buildVars, storeVars, toolVars, dlVars, orch, sessVars, queue, worker, cancel_evt, shown>>

\* _pump: one q.get_nowait() that gives a message, and its line in the window
PumpGet ==
    /\ gui.pc = "drain"
    /\ queue # <<>>
    /\ shown' = Append(shown, Head(queue))
    /\ queue' = Tail(queue)
    /\ UNCHANGED <<normVars, buildVars, storeVars, toolVars, dlVars, orch, sessVars, worker, cancel_evt, gui>>

\* _pump: q.get_nowait() raises queue.Empty
PumpEmpty ==
    /\ gui.pc = "drain"
    /\ queue = <<>>
    /\ gui' = [gui EXCEPT !.pc = "alive?"]
    /\ UNCHANGED <<normVars, buildVars, storeVars, toolVars, dlVars, orch, sessVars, queue, worker, cancel_evt, shown>>

\* _pump: "if self.worker and self.worker.is_alive(): self.after(120, self._pump)",
\* else the progress bar stops
PumpEnd ==
    /\ gui.pc = "alive?"
    /\ gui' = [gui EXCEPT !.pc = "idle", !.pending = IF is_alive THEN gui.pending + 1 ELSE gui.pending]
    /\ UNCHANGED <<normVars, buildVars, storeVars, toolVars, dlVars, orch, sessVars, queue, worker, cancel_evt, shown>>

\* _run up to worker_download: Session(host) and login(); without a user the
\* worker puts an error and returns
Connect(ok) ==
    /\ worker.pc = "connect"
    /\ IF ok
       THEN /\ worker' = [worker EXCEPT !.pc = "query"]
            /\ UNCHANGED queue
       ELSE /\ Put("error")
            /\ worker' = [worker EXCEPT !.pc = "return"]
    /\ UNCHANGED <<normVars, buildVars, storeVars, toolVars, dlVars, orch, sessVars, cancel_evt, gui, shown>>

\* worker_download: log_q("Querying ... item id(s) for drawings...")
Query ==
    /\ worker.pc = "query"
    /\ Put("msg")
    /\ worker' = [worker EXCEPT !.pc = "loop"]
    /\ UNCHANGED <<normVars, buildVars, storeVars, toolVars, dlVars, orch, sessVars, cancel_evt, gui, shown>>

\* worker_download: the top of "for item_id in items": after the last item the
\* worker puts "done"; with the flag set it returns; else the item is started
\* with log_q("...: fetching drawing datasets...")
NextItem ==
    /\ worker.pc = "loop"
    /\ IF worker.started = worker.n
       THEN /\ Put("done")
            /\ worker' = [worker EXCEPT !.pc = "return"]
       ELSE IF cancel_evt
       THEN /\ worker' = [worker EXCEPT !.pc = "return"]
            /\ UNCHANGED queue
       ELSE /\ Put("msg")
            /\ worker' = [worker EXCEPT !.pc = "item", !.started = worker.started + 1]
    /\ UNCHANGED <<normVars, buildVars, storeVars, toolVars, dlVars, orch, sessVars, cancel_evt, gui, shown>>

\* worker_download: the rest of the loop body: the query and the download of
\* one item, and the log_q of what came of it
Item ==
    /\ worker.pc = "item"
    /\ Put("msg")
    /\ worker' = [worker EXCEPT !.pc = "loop"]
    /\ UNCHANGED <<normVars, buildVars, storeVars, toolVars, dlVars, orch, sessVars, cancel_evt, gui, shown>>

\* _run returns and the thread ends
ThreadEnds ==
    /\ worker.pc = "return"
    /\ worker' = [worker EXCEPT !.pc = "dead"]
    /\ UNCHANGED <<normVars, buildVars, storeVars, toolVars, dlVars, orch, sessVars, queue, cancel_evt, gui, shown>>

InitGui ==
    /\ queue = <<>> /\ shown = <<>> /\ cancel_evt = FALSE
    /\ worker = [pc |-> "none", run |-> 0, n |-> 0, started |-> 0]
    /\ gui = [pc |-> "idle", pending |-> 0, cancelRun |-> 0, cancelAt |-> 0]
    /\ ToolsIdle /\ DownloadIdle /\ RunIdle /\ SessionIdle
    /\ corpus = Absent /\ pos = 0 /\ offset = 0 /\ index = <<>> /\ pc = "gui"
    /\ indexFile = Absent /\ cache = None /\ reads = 0 /\ call = NoCall
    /\ raw = <<>> /\ norm = None /\ renorm = None

NextGui ==
    \/ \E n \in 0..MaxItems : Start(n)
    \/ Cancel
    \/ OnClosing
    \/ PumpBegin
    \/ PumpGet
    \/ PumpEmpty
    \/ PumpEnd
    \/ \E ok \in BOOLEAN : Connect(ok)
    \/ Query
    \/ NextItem
    \/ Item
    \/ ThreadEnds

SpecGui == InitGui /\ [][NextGui]_vars

\* _pump is not under way and no timer will call it
PollingStopped == gui.pc = "idle" /\ gui.pending = 0

\* C24: while the window is open, polling does not stop as long as a message
\* of the worker is in the queue or the worker can still put one: every "msg",
\* "error" and "done" is taken from the queue and displayed by _pump.
C24_PollingOutlivesMessages ==
    PollingStopped => (queue = <<>> /\ ~is_alive)

\* the messages of the worker, queued or displayed
Messages == {queue[i] : i \in DOMAIN queue} \cup {shown[i] : i \in DOMAIN shown}

\* C25 as stated: once cancel_evt is set the worker posts no "done" message.
C25_NoDoneOnceCancelled ==
    \A m \in Messages : m.kind = "done" => ~m.cancelled

\* C25: a cancel request applies to the run in progress only.  With the flag
\* set the worker starts no further item id, and it puts "done" only when the
\* flag was raised after its last item had started (the flag is tested at the
\* top of the loop over the item ids, nowhere else); no worker is started
\* while one is alive; and a worker is started with the flag cleared, so that
\* a flag that is set was raised during the run of the present worker.
C25_CancelAppliesToRunInProgress ==
    /\ [][/\ (worker'.run = worker.run /\ worker'.started > worker.started) => ~cancel_evt
          /\ worker'.run # worker.run => (~is_alive /\ ~cancel_evt')]_vars
    /\ [](/\ cancel_evt => gui.cancelRun = worker.run
          /\ \A m \in Messages :
                (m.kind = "done" /\ m.cancelled /\ m.run = worker.run) =>
                    (gui.cancelRun = worker.run /\ gui.cancelAt = worker.n))

\* C25's case: the first run was cancelled before its second item and put no
\* "done"; the second run, started later, is at its second item with the flag
\* clear.
C25_Witness ==
    /\ worker.run = 2 /\ worker.pc = "item" /\ worker.started = 2
    /\ ~cancel_evt
    /\ gui.cancelRun = 1 /\ gui.cancelAt = 1
    /\ \A m \in Messages : m.run = 1 => m.kind # "done"

====
